---- MODULE Spec2Model ----
(***************************************************************************)
(* Artwork compliance pipeline of mp3-vibe-artwork: validation of artwork  *)
(* bytes (ArtworkProcessor.validate_artwork), resizing and byte-budget     *)
(* optimisation (ArtworkProcessor.resize_and_optimize), extraction of the  *)
(* picture frame of an MP3 tag (MP3FileHandler.extract_artwork) and        *)
(* embedding of a picture frame into a copy of the MP3                     *)
(* (FileOperations, MP3OutputService, MP3Processor).                       *)
(*                                                                         *)
(* A byte string holding artwork is represented by what the code observes  *)
(* of it: its length, how far PIL gets when decoding it, and the format    *)
(* and dimensions PIL reads from its header.                               *)
(***************************************************************************)
EXTENDS Integers, Sequences, FiniteSets, TLC

VARIABLES
    vimg,       \* validate_artwork: the image_data argument
    vres,       \* validate_artwork: the returned (is_valid, issues), or NoResult
    encDom,     \* byte sizes the image encoder can return for one save()
    oin,        \* resize_and_optimize: the image_data argument
    otarget,    \* resize_and_optimize: the target_format argument ("None" when omitted)
    opc,        \* resize_and_optimize: position in the call
    oimg,       \* resize_and_optimize: the working image img (dimensions, known encodings)
    tfmt,       \* resize_and_optimize: target_format after the defaults are applied
    info,       \* resize_and_optimize: processing_info
    qidx,       \* _optimize_jpeg / _optimize_png: index of the next attempt
    best,       \* _optimize_png: (best_data, best_size)
    oout,       \* resize_and_optimize: the returned bytes, or NoBytes
    round,      \* number of completed resize_and_optimize calls in this run
    first,      \* outcome of the first completed call (input and output), or NoBytes
    fs,         \* file system: path -> MP3 container, or NoFile
    cres,       \* result of the last container operation
    cop,        \* name of the last container operation ("none" initially)
    ppc,        \* process_mp3_file: position in the call
    pstate,     \* process_mp3_file: the orchestrator state the run is in
    pmb,        \* FileOperations.enable_musicbrainz
    ares,       \* process_mp3_file: artwork_result, the result of the last process_artwork
    padata,     \* process_mp3_file: artwork_data (NoBytes for None)
    pinfo,      \* process_mp3_file: result['artwork_info']
    pres,       \* process_mp3_file: success, output_path and error of the result
    artfile,    \* the artwork file written next to an invalid MP3 (NoBytes: none)
    ponline,    \* process_mp3_file: the bytes of online_artwork (NoBytes for None)
    inst,       \* the concurrently running calls of copy_mp3_with_artwork
    io,         \* ImageOptimizer._optimize_file_size: position, arguments, saves, result
    udir,       \* generate_unique_filename: the names of the files in output_dir
    ures,       \* generate_unique_filename: the name returned ("None" before a call)
    tstatus,    \* TaskManager: task id -> status of the task ("absent" before create_task)
    running_tasks, \* TaskManager.running_tasks
    texec,      \* task id -> whether target_func of the task was called
    twork,      \* task id -> position of the task's thread in task_wrapper
    job,        \* ProcessingJob: current_step, progress, completed_at, error_message, steps
    oi          \* ImageOptimizer.optimize_image: position, output file, result

vars == <<vimg, vres, encDom, oin, otarget, opc, oimg, tfmt, info, qidx, best,
          oout, round, first, fs, cres, cop,
          ppc, pstate, pmb, ares, padata, pinfo, pres, artfile, ponline, inst, io,
          udir, ures, tstatus, running_tasks, texec, twork, job, oi>>

valVars == <<vimg, vres>>
optVars == <<encDom, oin, otarget, opc, oimg, tfmt, info, qidx, best, oout, round, first>>
conVars == <<fs, cres, cop>>
pipVars == <<ppc, pstate, pmb, ares, padata, pinfo, pres, artfile, ponline>>
ccVars == <<inst>>
ioVars == <<io>>
uqVars == <<udir, ures>>
tmVars == <<tstatus, running_tasks, texec, twork>>
pjVars == <<job>>
oiVars == <<oi>>
svcVars == <<uqVars, tmVars, pjVars, oiVars>>
baseVars == <<valVars, optVars, conVars, pipVars, ccVars, ioVars>>

-----------------------------------------------------------------------------
(* Traktor 3 artwork specification                                         *)

MAX_WIDTH == 500
MAX_HEIGHT == 500
MAX_FILE_SIZE == 500 * 1024
SUPPORTED_FORMATS == {"JPEG", "PNG"}

-----------------------------------------------------------------------------
(* Bounds of the model                                                     *)

\* largest image dimension drawn for an input image
MaxDim == 2000

\* image dimensions drawn for inputs: the limit and its neighbours, small
\* and extreme values
Dims == {1, 3, 499, MAX_WIDTH, MAX_WIDTH + 1, 531, 1000, MaxDim}

\* byte lengths drawn for input byte strings
Lens == {1, MAX_FILE_SIZE - 1, MAX_FILE_SIZE, MAX_FILE_SIZE + 1, MAX_FILE_SIZE + 2}

\* formats PIL can report for a readable header
Formats == {"JPEG", "PNG", "GIF"}

\* How far PIL gets on a byte string:
\*   "unreadable"  Image.open raises
\*   "badverify"   Image.open succeeds, img.verify() raises, pixel data loads
\*   "broken"      Image.open succeeds, img.verify() raises, pixel data does not load
\*   "truncated"   Image.open and img.verify() succeed, pixel data does not load
\*   "ok"          everything decodes
DecodeClasses == {"unreadable", "badverify", "broken", "truncated", "ok"}

OpenOk(b) == b.dec # "unreadable"
VerifyOk(b) == b.dec \in {"truncated", "ok"}
LoadOk(b) == b.dec \in {"badverify", "ok"}

\* the bytes record; enc is 0 for bytes supplied from outside and 1 for
\* bytes written by a save() of this program, memo the sizes of the PNG
\* encodings already known of the pixel data the bytes decode to (the
\* encoder is deterministic: the same pixels and parameters give the same
\* bytes)
Bytes(len, dec, fmt, w, h, enc, memo) ==
    [len |-> len, dec |-> dec, fmt |-> fmt, w |-> w, h |-> h, enc |-> enc, memo |-> memo]

NoBytes == Bytes(0, "unreadable", "NONE", 0, 0, -1, <<>>)

\* every input byte string of the given dimensions
InputBytes(lens, decs, fmts, ws, hs) ==
    { Bytes(l, "unreadable", "NONE", 0, 0, 0, <<>>) : l \in IF "unreadable" \in decs THEN lens ELSE {} }
    \cup
    { Bytes(l, d, f, w, h, 0, <<>>) :
        l \in lens, d \in decs \ {"unreadable"}, f \in fmts, w \in ws, h \in hs }

-----------------------------------------------------------------------------
(* ArtworkProcessor.validate_artwork                                       *)

NoResult == [ok |-> FALSE, issues |-> <<"none">>]

\* the issue appended by each check, in the order of the code
size_issue(b) == IF b.len > MAX_FILE_SIZE THEN <<"TooLarge">> ELSE <<>>
format_issue(b) == IF b.fmt \notin SUPPORTED_FORMATS THEN <<"UnsupportedFormat">> ELSE <<>>
\* the width check with the limit itself rejected
width_issue_inclusive(b) == IF b.w >= MAX_WIDTH THEN <<"TooWide">> ELSE <<>>
width_issue(b) == IF b.w > MAX_WIDTH THEN <<"TooWide">> ELSE <<>>
\* the height check reading the width
height_issue_of_width(b) == IF b.w > MAX_HEIGHT THEN <<"TooTall">> ELSE <<>>
height_issue(b) == IF b.h > MAX_HEIGHT THEN <<"TooTall">> ELSE <<>>

\* validate_artwork going on to the header checks after Image.open failed
validate_issues_nostop(b) ==
    size_issue(b) \o format_issue(b) \o width_issue(b) \o height_issue(b)
    \o (IF OpenOk(b) /\ VerifyOk(b) THEN <<>> ELSE <<"Corrupt">>)

validate_issues(b) ==
    IF ~OpenOk(b)
    THEN size_issue(b) \o <<"Corrupt">>
    ELSE size_issue(b) \o format_issue(b) \o width_issue(b) \o height_issue(b)
         \o (IF VerifyOk(b) THEN <<>> ELSE <<"Corrupt">>)

validate_artwork(b) ==
    LET issues == validate_issues(b)
    IN  [ok |-> Len(issues) = 0, issues |-> issues]

Validate ==
    /\ vres = NoResult
    /\ vres' = validate_artwork(vimg)
    /\ UNCHANGED <<vimg>>
    /\ UNCHANGED optVars
    /\ UNCHANGED conVars
    /\ UNCHANGED pipVars
    /\ UNCHANGED ccVars
    /\ UNCHANGED ioVars
    /\ UNCHANGED svcVars

-----------------------------------------------------------------------------
(* ArtworkProcessor.resize_and_optimize                                    *)

\* values of the target_format argument ("None": argument omitted)
Targets == {"None", "JPEG", "PNG", "GIF"}

\* a ladder that steps up again after its second quality
quality_levels_unsorted == <<95, 90, 92, 80, 75, 70, 65, 60, 55, 50, 45, 40>>

\* the qualities _optimize_jpeg tries, in this order
quality_levels == <<95, 90, 85, 80, 75, 70, 65, 60, 55, 50, 45, 40>>
forced_quality == 30

strategies ==
    << [optimize |-> TRUE, compress_level |-> 9],
       [optimize |-> TRUE, compress_level |-> 6],
       [optimize |-> FALSE, compress_level |-> 9] >>

\* processing_info as initialised at the top of resize_and_optimize
\* (<<>> for a dimension pair that is None, "None" for no error)
new_processing_info(b) ==
    [original_size_bytes |-> b.len,
     original_dimensions |-> <<>>,
     final_size_bytes |-> 0,
     final_dimensions |-> <<>>,
     format_changed |-> FALSE,
     resized |-> FALSE,
     quality_adjustments |-> <<>>,
     error |-> "None"]

\* one entry of processing_info['quality_adjustments']; q is the JPEG
\* quality or the number of the PNG strategy, size the byte size the entry
\* mentions (-1 when the entry mentions none)
Adj(kind, q, size) == [kind |-> kind, q |-> q, size |-> size]

NoImg == [w |-> 0, h |-> 0, memo |-> <<>>]
NoBest == [data |-> NoBytes, size |-> -1]
NoFirst == [in |-> NoBytes, out |-> NoBytes]

\* target_format after the two defaulting steps
target_format_of(arg, original_format) ==
    LET t1 == IF arg = "None"
              THEN (IF original_format \in SUPPORTED_FORMATS THEN original_format ELSE "JPEG")
              ELSE arg
    IN  IF t1 \notin SUPPORTED_FORMATS THEN "JPEG" ELSE t1

\* the resize test also taking images below the limits
needs_resize_any(w, h) == w # MAX_WIDTH \/ h # MAX_HEIGHT
needs_resize(w, h) == w > MAX_WIDTH \/ h > MAX_HEIGHT

\* Pairs <<x, d>> of the dimensions drawn by the model (Dims, and MaxDim + 1)
\* for which the double product x * (500 / d) falls below the exact integer
\* 500 * x / d, so that int() yields one less than the exact quotient.
\* For every other pair of the domain int(x * (500 / d)) is the floor of the
\* exact quotient.
FloatBelow == { <<531, 531>> }

\* ratio = min(MAX_WIDTH / width, MAX_HEIGHT / height), as numerator and
\* denominator
resize_ratio(w, h) ==
    IF MAX_WIDTH * h <= MAX_HEIGHT * w THEN <<MAX_WIDTH, w>> ELSE <<MAX_HEIGHT, h>>

\* int(x * ratio)
scaled(x, w, h) ==
    LET r == resize_ratio(w, h)
        q == (x * r[1]) \div r[2]
    IN  IF <<x, r[2]>> \in FloatBelow THEN q - 1 ELSE q

\* common tail of every return of resize_and_optimize
OptReturn(data, newinfo) ==
    /\ oout' = data
    /\ info' = newinfo
    /\ opc' = "done"
    /\ round' = round + 1
    /\ first' = IF round = 0 THEN [in |-> oin, out |-> data] ELSE first

\* the except clause: the error is recorded and the input is returned
OptRaise(curinfo, err) ==
    /\ OptReturn(oin, [curinfo EXCEPT !.error = err])
    /\ UNCHANGED <<oimg, tfmt, qidx, best>>

\* the successful return: final_size_bytes is recorded
OptSuccess(data, curinfo) ==
    OptReturn(data, [curinfo EXCEPT !.final_size_bytes = data.len])

\* resize_and_optimize up to the call of _optimize_file_size: open the
\* image, choose the target format, resize
OptStart ==
    /\ opc = "idle"
    /\ LET i0 == new_processing_info(oin)
       IN  IF ~OpenOk(oin)
           THEN OptRaise(i0, "open")
           ELSE
             LET t == target_format_of(otarget, oin.fmt)
                 i1 == [i0 EXCEPT !.original_dimensions = <<oin.w, oin.h>>,
                                  !.format_changed = (t # oin.fmt)]
                 nw == scaled(oin.w, oin.w, oin.h)
                 nh == scaled(oin.h, oin.w, oin.h)
             IN  IF needs_resize(oin.w, oin.h)
                 THEN IF ~LoadOk(oin)
                      THEN OptRaise(i1, "load")
                      ELSE IF nw < 1 \/ nh < 1
                      THEN \* Image.resize raises ValueError on an empty size
                           OptRaise(i1, "resize")
                      ELSE /\ oimg' = [w |-> nw, h |-> nh, memo |-> <<>>]
                           /\ info' = [i1 EXCEPT !.resized = TRUE,
                                                 !.final_dimensions = <<nw, nh>>]
                           /\ tfmt' = t
                           /\ opc' = IF t = "JPEG" THEN "jpeg" ELSE "png"
                           /\ qidx' = 1
                           /\ best' = NoBest
                           /\ UNCHANGED <<oout, round, first>>
                 ELSE /\ oimg' = [w |-> oin.w, h |-> oin.h,
                                  memo |-> IF oin.fmt = "PNG" THEN oin.memo ELSE <<>>]
                      /\ info' = [i1 EXCEPT !.final_dimensions = <<oin.w, oin.h>>]
                      /\ tfmt' = t
                      /\ opc' = IF t = "JPEG" THEN "jpeg" ELSE "png"
                      /\ qidx' = 1
                      /\ best' = NoBest
                      /\ UNCHANGED <<oout, round, first>>
    /\ UNCHANGED <<encDom, oin, otarget>>
    /\ UNCHANGED valVars
    /\ UNCHANGED conVars
    /\ UNCHANGED pipVars
    /\ UNCHANGED ccVars
    /\ UNCHANGED ioVars
    /\ UNCHANGED svcVars

\* img.save() has to load the pixel data unless the resize already did
SaveLoads == LoadOk(oin) \/ info.resized

\* an iteration of the loop of _optimize_jpeg that stays at the same quality
\* after an encoding over the budget
JpegAttempt_stuck ==
    /\ opc = "jpeg"
    /\ qidx <= Len(quality_levels)
    /\ IF ~SaveLoads
       THEN OptRaise(info, "load")
       ELSE \E s \in encDom :
              LET quality == quality_levels[qidx]
                  data == Bytes(s, "ok", "JPEG", oimg.w, oimg.h, 1, <<>>)
                  adj1 == Append(info.quality_adjustments, Adj("jpeg_try", quality, s))
              IN  IF s <= MAX_FILE_SIZE
                  THEN /\ OptSuccess(data, [info EXCEPT !.quality_adjustments =
                                              Append(adj1, Adj("jpeg_final", quality, -1))])
                       /\ UNCHANGED <<oimg, tfmt, qidx, best>>
                  ELSE /\ info' = [info EXCEPT !.quality_adjustments = adj1]
                       /\ qidx' = qidx
                       /\ UNCHANGED <<oimg, tfmt, best, opc, oout, round, first>>
    /\ UNCHANGED <<encDom, oin, otarget>>
    /\ UNCHANGED valVars
    /\ UNCHANGED conVars
    /\ UNCHANGED pipVars
    /\ UNCHANGED ccVars
    /\ UNCHANGED ioVars
    /\ UNCHANGED svcVars

\* one iteration of the loop of _optimize_jpeg
JpegAttempt ==
    /\ opc = "jpeg"
    /\ qidx <= Len(quality_levels)
    /\ IF ~SaveLoads
       THEN OptRaise(info, "load")
       ELSE \E s \in encDom :
              LET quality == quality_levels[qidx]
                  data == Bytes(s, "ok", "JPEG", oimg.w, oimg.h, 1, <<>>)
                  adj1 == Append(info.quality_adjustments, Adj("jpeg_try", quality, s))
              IN  IF s <= MAX_FILE_SIZE
                  THEN /\ OptSuccess(data, [info EXCEPT !.quality_adjustments =
                                              Append(adj1, Adj("jpeg_final", quality, -1))])
                       /\ UNCHANGED <<oimg, tfmt, qidx, best>>
                  ELSE /\ info' = [info EXCEPT !.quality_adjustments = adj1]
                       /\ qidx' = qidx + 1
                       /\ UNCHANGED <<oimg, tfmt, best, opc, oout, round, first>>
    /\ UNCHANGED <<encDom, oin, otarget>>
    /\ UNCHANGED valVars
    /\ UNCHANGED conVars
    /\ UNCHANGED pipVars
    /\ UNCHANGED ccVars
    /\ UNCHANGED ioVars
    /\ UNCHANGED svcVars

\* the code of _optimize_jpeg after the loop: quality 30, whatever the size
JpegForced ==
    /\ opc = "jpeg"
    /\ qidx > Len(quality_levels)
    /\ \E s \in encDom :
         LET data == Bytes(s, "ok", "JPEG", oimg.w, oimg.h, 1, <<>>)
         IN  OptSuccess(data, [info EXCEPT !.quality_adjustments =
                                 Append(@, Adj("jpeg_forced", forced_quality, -1))])
    /\ UNCHANGED <<oimg, tfmt, qidx, best>>
    /\ UNCHANGED <<encDom, oin, otarget>>
    /\ UNCHANGED valVars
    /\ UNCHANGED conVars
    /\ UNCHANGED pipVars
    /\ UNCHANGED ccVars
    /\ UNCHANGED ioVars
    /\ UNCHANGED svcVars

\* one iteration of the loop of _optimize_png; the last iteration carries
\* the code after the loop
PngAttempt ==
    /\ opc = "png"
    /\ qidx <= Len(strategies)
    /\ IF ~SaveLoads
       THEN OptRaise(info, "load")
       ELSE \E s \in (IF qidx <= Len(oimg.memo) THEN {oimg.memo[qidx]} ELSE encDom) :
              LET memo1 == IF qidx <= Len(oimg.memo) THEN oimg.memo ELSE Append(oimg.memo, s)
                  data == Bytes(s, "ok", "PNG", oimg.w, oimg.h, 1, memo1)
                  adj1 == Append(info.quality_adjustments, Adj("png_try", qidx, s))
                  best1 == IF best.size = -1 \/ s < best.size
                           THEN [data |-> data, size |-> s] ELSE best
              IN  IF s <= MAX_FILE_SIZE
                  THEN /\ OptSuccess(data, [info EXCEPT !.quality_adjustments =
                                              Append(adj1, Adj("png_ok", qidx, -1))])
                       /\ UNCHANGED <<oimg, tfmt, qidx, best>>
                  ELSE IF qidx < Len(strategies)
                  THEN /\ info' = [info EXCEPT !.quality_adjustments = adj1]
                       /\ qidx' = qidx + 1
                       /\ best' = best1
                       /\ oimg' = [oimg EXCEPT !.memo = memo1]
                       /\ UNCHANGED <<tfmt, opc, oout, round, first>>
                  ELSE IF best1.size > MAX_FILE_SIZE
                  THEN \* PNG too large, converting to JPEG
                       /\ info' = [info EXCEPT !.quality_adjustments =
                                     Append(adj1, Adj("png_to_jpeg", qidx, -1))]
                       /\ opc' = "jpeg"
                       /\ qidx' = 1
                       /\ best' = best1
                       /\ oimg' = [oimg EXCEPT !.memo = <<>>]
                       /\ UNCHANGED <<tfmt, oout, round, first>>
                  ELSE /\ OptSuccess(best1.data, [info EXCEPT !.quality_adjustments =
                                              Append(adj1, Adj("png_best", qidx, -1))])
                       /\ UNCHANGED <<oimg, tfmt, qidx, best>>
    /\ UNCHANGED <<encDom, oin, otarget>>
    /\ UNCHANGED valVars
    /\ UNCHANGED conVars
    /\ UNCHANGED pipVars
    /\ UNCHANGED ccVars
    /\ UNCHANGED ioVars
    /\ UNCHANGED svcVars

\* a second call of resize_and_optimize, on the bytes the first call
\* returned when these are compliant, with the format left to the optimizer
\* or named as the format the bytes already have
Reapply ==
    /\ opc = "done"
    /\ round = 1
    /\ validate_artwork(oout).ok
    /\ oin' = oout
    /\ otarget' \in {"None", oout.fmt}
    /\ opc' = "idle"
    /\ oimg' = NoImg
    /\ tfmt' = "None"
    /\ info' = new_processing_info(NoBytes)
    /\ qidx' = 0
    /\ best' = NoBest
    /\ oout' = NoBytes
    /\ UNCHANGED <<encDom, round, first>>
    /\ UNCHANGED valVars
    /\ UNCHANGED conVars
    /\ UNCHANGED pipVars
    /\ UNCHANGED ccVars
    /\ UNCHANGED ioVars
    /\ UNCHANGED svcVars

-----------------------------------------------------------------------------
(* MP3 containers and their ID3v2 tag                                      *)

\* largest number of attached-picture frames in a source container
MaxFrames == 2

\* A frame of the tag.  An attached-picture frame (APIC) carries mime, type,
\* desc and data; a text frame carries the list of its text values.
PicFrame(mime, type, desc, data) ==
    [id |-> "APIC", mime |-> mime, type |-> type, desc |-> desc, data |-> data, text |-> <<>>]

TextFrame(id, text) ==
    [id |-> id, mime |-> "", type |-> 0, desc |-> "", data |-> NoBytes, text |-> text]

NoFrame == [id |-> "None", mime |-> "", type |-> 0, desc |-> "", data |-> NoBytes, text |-> <<>>]

IsAPIC(fr) == fr.id = "APIC"
NotAPIC(fr) == fr.id # "APIC"

\* A file holding an MP3: hdr tells whether an ID3v2 header is present
\* ("none": no header, "bad": malformed header, "ok"), ver the tag version
\* (3 or 4), frames the frames of the tag in file order, mpeg whether an
\* MPEG audio frame can be found, audio the audio stream.
Mp3File(hdr, ver, frames, mpeg, audio) ==
    [hdr |-> hdr, ver |-> ver, frames |-> frames, mpeg |-> mpeg, audio |-> audio]

NoFile == Mp3File("absent", 0, <<>>, FALSE, "")

Paths == {"src", "src2", "out", "out_001"}

\* payloads of the picture frames of a source container
EmptyPayload == Bytes(0, "unreadable", "NONE", 0, 0, 0, <<>>)
SmallJpeg == Bytes(MAX_FILE_SIZE - 1, "ok", "JPEG", 499, 499, 0, <<>>)
LargePng == Bytes(MAX_FILE_SIZE + 1, "ok", "PNG", 1000, 1000, 0, <<>>)

SrcPictures ==
    { PicFrame(IF d.fmt = "PNG" THEN "image/png" ELSE "image/jpeg", t, desc, d) :
        t \in {3, 4}, desc \in {"", "Back"}, d \in {EmptyPayload, SmallJpeg, LargePng} }

SeqsUpTo(S, n) == UNION { [1..k -> S] : k \in 0..n }

\* the text frames of a source container: the year is TYER in an ID3v2.3
\* tag and TDRC in an ID3v2.4 tag; TSOP exists in ID3v2.4 only
SrcTextFrames(ver) ==
    LET year == IF ver = 3 THEN TextFrame("TYER", <<"2020">>) ELSE TextFrame("TDRC", <<"2020">>)
    IN  { <<>>,
          <<TextFrame("TIT2", <<"Song">>)>>,
          <<TextFrame("TIT2", <<"Song">>), year>>,
          <<TextFrame("TPE1", <<"A", "B">>)>> }
        \cup (IF ver = 4 THEN { <<TextFrame("TSOP", <<"B, A">>)>> } ELSE {})

\* source containers: without header, with a malformed header, without
\* audio, and with a tag of text frames followed by picture frames
SourceFiles ==
    { Mp3File("none", 0, <<>>, m, "audio") : m \in BOOLEAN }
    \cup { Mp3File("bad", 0, <<>>, TRUE, "audio"), Mp3File("ok", 3, <<>>, FALSE, "") }
    \cup UNION { { Mp3File("ok", v, t \o p, TRUE, "audio") :
                     t \in SrcTextFrames(v), p \in SeqsUpTo(SrcPictures, MaxFrames) } :
                 v \in {3, 4} }

-----------------------------------------------------------------------------
(* mutagen: loading and saving the tag of an MP3                           *)

\* ID3.update_to_v24, applied when a tag is loaded: ID3v2.3 frames become
\* their ID3v2.4 counterparts (TYER -> TDRC)
to_v24(fr) == IF fr.id = "TYER" THEN <<TextFrame("TDRC", fr.text)>> ELSE <<fr>>
RECURSIVE update_to_v24(_)
update_to_v24(frs) ==
    IF frs = <<>> THEN <<>> ELSE to_v24(Head(frs)) \o update_to_v24(Tail(frs))

RECURSIVE JoinText(_)
\* the values of a text frame joined by v23_sep = '/'
JoinText(text) ==
    IF Len(text) <= 1 THEN text
    ELSE JoinText(<<text[1] \o "/" \o text[2]>> \o SubSeq(text, 3, Len(text)))

\* ID3.update_to_v23 and the ID3v2.3 rendering, applied by
\* save(v2_version=3, v23_sep='/'): TDRC -> TYER, frames that exist in
\* ID3v2.4 only are dropped, several text values are joined by the separator
to_v23(fr) ==
    IF fr.id = "TDRC" THEN <<TextFrame("TYER", JoinText(fr.text))>>
    ELSE IF fr.id = "TSOP" THEN <<>>
    ELSE IF IsAPIC(fr) THEN <<fr>>
    ELSE <<TextFrame(fr.id, JoinText(fr.text))>>
RECURSIVE update_to_v23(_)
update_to_v23(frs) ==
    IF frs = <<>> THEN <<>> ELSE to_v23(Head(frs)) \o update_to_v23(Tail(frs))

\* MP3(path): raises when the file is missing, the ID3 header is malformed
\* or no MPEG frame is found; tags is None without ID3 header; the frames
\* are translated to ID3v2.4
MP3Load(f) ==
    [raised |-> f.hdr \in {"absent", "bad"} \/ ~f.mpeg,
     hastags |-> f.hdr = "ok",
     frames |-> IF f.hdr # "ok" THEN <<>>
                ELSE IF f.ver = 3 THEN update_to_v24(f.frames) ELSE f.frames]

\* outcome of writing a file: written, failed leaving the target as it was,
\* failed leaving a damaged target behind
WriteOutcomes == {"ok", "fail", "partial"}

Damaged(f) == Mp3File("bad", 0, <<>>, FALSE, "")

\* tags.save(): the file with the given frames as an ID3 tag of version v
SaveTags(f, frs, v, outcome) ==
    IF outcome = "ok"
    THEN Mp3File("ok", v, IF v = 3 THEN update_to_v23(frs) ELSE frs, f.mpeg, f.audio)
    ELSE IF outcome = "fail" THEN f
    ELSE Damaged(f)

\* shutil.copy2(src, dst) raises: SameFileError when both name the same
\* file, or an I/O error
Copy2Raises(src, dst, outcome) == src = dst \/ outcome # "ok"

\* shutil.copy2(src, dst): the files it leaves
Copy2(files, src, dst, outcome) ==
    IF src = dst THEN files
    ELSE IF outcome = "ok" THEN [files EXCEPT ![dst] = files[src]]
    ELSE IF outcome = "fail" THEN files
    ELSE [files EXCEPT ![dst] = Damaged(files[src])]

-----------------------------------------------------------------------------
(* Results of the container operations                                     *)

\* success: the operation reported success; embedded: it reported the
\* artwork as embedded; raised: it raised to its caller; out: the output
\* path it reported ("None" when none); value: the frame extract_artwork
\* returned (NoFrame for None); art, mime: the artwork bytes and the MIME
\* type the operation was given or derived
CRes(success, embedded, raised, out, value, art, mime) ==
    [success |-> success, embedded |-> embedded, raised |-> raised, out |-> out,
     value |-> value, art |-> art, mime |-> mime]

NoCRes == CRes(FALSE, FALSE, FALSE, "None", NoFrame, NoBytes, "")

-----------------------------------------------------------------------------
(* MP3FileHandler.extract_artwork                                          *)

RECURSIVE select_loop(_, _, _, _)
\* the loop over artwork_frames: <<front_cover, largest_artwork>> after the
\* frames from index i on, given largest_artwork and largest_size so far
select_loop(frames, i, largest_artwork, largest_size) ==
    IF i > Len(frames) THEN <<NoFrame, largest_artwork>>
    ELSE IF frames[i].type = 3 THEN <<frames[i], largest_artwork>>
    ELSE IF frames[i].data.len > largest_size
         THEN select_loop(frames, i + 1, frames[i], frames[i].data.len)
         ELSE select_loop(frames, i + 1, largest_artwork, largest_size)

\* selected_frame = front_cover or largest_artwork
select_frame(frames) ==
    LET r == select_loop(frames, 1, NoFrame, 0)
    IN  IF r[1] # NoFrame THEN r[1] ELSE r[2]

\* extract_artwork catching ID3NoHeaderError only
extract_artwork_uncaught(f) ==
    LET mp3 == MP3Load(f)
        artwork_frames == SelectSeq(mp3.frames, IsAPIC)
    IN  IF mp3.raised THEN [raised |-> TRUE, value |-> NoFrame]
        ELSE IF ~mp3.hastags \/ mp3.frames = <<>> THEN [raised |-> FALSE, value |-> NoFrame]
        ELSE IF artwork_frames = <<>> THEN [raised |-> FALSE, value |-> NoFrame]
        ELSE [raised |-> FALSE, value |-> select_frame(artwork_frames)]

\* the value returned by extract_artwork and whether it raised
extract_artwork(f) ==
    LET mp3 == MP3Load(f)
        artwork_frames == SelectSeq(mp3.frames, IsAPIC)
    IN  IF mp3.raised THEN [raised |-> FALSE, value |-> NoFrame]
        ELSE IF ~mp3.hastags \/ mp3.frames = <<>> THEN [raised |-> FALSE, value |-> NoFrame]
        ELSE IF artwork_frames = <<>> THEN [raised |-> FALSE, value |-> NoFrame]
        ELSE [raised |-> FALSE, value |-> select_frame(artwork_frames)]

Extract ==
    /\ cop = "none"
    /\ LET r == extract_artwork(fs["src"])
       IN  cres' = CRes(~r.raised, FALSE, r.raised, "None", r.value, NoBytes, "")
    /\ cop' = "extract"
    /\ UNCHANGED fs
    /\ UNCHANGED valVars
    /\ UNCHANGED optVars
    /\ UNCHANGED pipVars
    /\ UNCHANGED ccVars
    /\ UNCHANGED ioVars
    /\ UNCHANGED svcVars

-----------------------------------------------------------------------------
(* Embedding: FileOperations, MP3OutputService, MP3Processor               *)

\* artwork bytes handed to the embedders
SmallPng == Bytes(1, "ok", "PNG", 3, 3, 0, <<>>)
ArtworkData == {EmptyPayload, SmallJpeg, SmallPng}

\* extensions of the artwork file handed to MP3OutputService and MP3Processor
ArtworkExts == {".jpg", ".png", ""}

Mimes == {"image/jpeg", "image/png"}

\* tags.delall('APIC')
delall_APIC(frs) == SelectSeq(frs, NotAPIC)

\* MP3FileHandler.validate_mp3_file on an existing file with an MP3 extension
validate_mp3_file(f) == f.hdr # "absent" /\ ~MP3Load(f).raised

\* FileOperations.generate_unique_filename for the base name "out"
generate_unique_filename(files) ==
    IF files["out"] = NoFile THEN "out" ELSE "out_001"

\* FileOperations.embed_artwork_in_mp3 on the file f: the returned flag and
\* the file it leaves
embed_artwork_in_mp3(f, artwork_data, mime_type, sv) ==
    LET mp3 == MP3Load(f)
        apic == PicFrame(mime_type, 3, "Cover", artwork_data)
        frs == Append(delall_APIC(mp3.frames), apic)
    IN  IF mp3.raised THEN [ok |-> FALSE, file |-> f]
        ELSE [ok |-> sv = "ok", file |-> SaveTags(f, frs, 4, sv)]

\* the embedding attempted whatever artwork_data is
artwork_given_always(art) == TRUE

\* "if artwork_data:": artwork was handed over and is not empty
artwork_given(art) == art.len > 0

\* FileOperations.copy_mp3_with_artwork(source, output_dir, artwork_data,
\* artwork_mime) for a source named like the base name "out" of the output
\* directory: the result it returns and the files it leaves; cp and sv are
\* the outcomes of copy2 and of tags.save()
copy_mp3_with_artwork(files, source, art, mime, cp, sv) ==
    LET src == files[source]
        output_path == generate_unique_filename(files)
        copied == Copy2(files, source, output_path, cp)
        emb == embed_artwork_in_mp3(copied[output_path], art, mime, sv)
    IN  IF src = NoFile \/ ~validate_mp3_file(src)
        THEN [res |-> CRes(FALSE, FALSE, FALSE, "None", NoFrame, art, mime), files |-> files]
        ELSE IF Copy2Raises(source, output_path, cp)
        THEN \* copy2 raised before result['output_path'] was set: no cleanup
             [res |-> CRes(FALSE, FALSE, FALSE, "None", NoFrame, art, mime), files |-> copied]
        ELSE IF artwork_given(art)
        THEN [res |-> CRes(TRUE, emb.ok, FALSE, output_path, NoFrame, art, mime),
              files |-> [copied EXCEPT ![output_path] = emb.file]]
        ELSE [res |-> CRes(TRUE, FALSE, FALSE, output_path, NoFrame, art, mime),
              files |-> copied]

\* one call of copy_mp3_with_artwork on the source
CopyMp3WithArtwork ==
    /\ cop = "none"
    /\ \E art \in ArtworkData, mime \in Mimes, cp \in WriteOutcomes, sv \in WriteOutcomes :
         LET r == copy_mp3_with_artwork(fs, "src", art, mime, cp, sv)
         IN  /\ cres' = r.res
             /\ fs' = r.files
    /\ cop' = "copy_mp3_with_artwork"
    /\ UNCHANGED valVars
    /\ UNCHANGED optVars
    /\ UNCHANGED pipVars
    /\ UNCHANGED ccVars
    /\ UNCHANGED ioVars
    /\ UNCHANGED svcVars

\* mimetypes.guess_type by extension, then the format PIL reads, then the
\* default (MP3OutputService.embed_artwork)
output_mime(ext, art) ==
    IF ext = ".jpg" THEN "image/jpeg"
    ELSE IF ext = ".png" THEN "image/png"
    ELSE IF ~OpenOk(art) THEN "image/jpeg"
    ELSE IF art.fmt = "JPEG" THEN "image/jpeg"
    ELSE IF art.fmt = "PNG" THEN "image/png"
    ELSE IF art.fmt = "GIF" THEN "image/gif"
    ELSE IF art.fmt = "BMP" THEN "image/bmp"
    ELSE "image/jpeg"

\* MP3OutputService.embed_artwork deleting the key 'APIC:' only
NotPlainAPIC(fr) == ~(IsAPIC(fr) /\ fr.desc = "")
output_service_frames_plain_key(frs, mime_type, image_data) ==
    Append(SelectSeq(frs, NotPlainAPIC), PicFrame(mime_type, 3, "Front Cover", image_data))

\* the frames MP3OutputService.embed_artwork leaves in the tag: the key
\* 'APIC:' and every key starting with 'APIC' are deleted, the new frame added
output_service_frames(frs, mime_type, image_data) ==
    Append(SelectSeq(frs, NotAPIC), PicFrame(mime_type, 3, "Front Cover", image_data))

\* os.unlink(output_path) of the cleanup
Unlink(files, path) == [files EXCEPT ![path] = NoFile]

\* output paths a caller asks an embedder for: a fresh path, or the path
\* of the source itself
OutputPaths == {"out", "src"}

\* MP3OutputService.embed_artwork("src", artwork_path, output_path)
OutputServiceEmbed ==
    /\ cop = "none"
    /\ \E art \in ArtworkData, ext \in ArtworkExts, cp \in WriteOutcomes, sv \in WriteOutcomes,
          output_path \in OutputPaths :
         LET copied == Copy2(fs, "src", output_path, cp)
             mp3 == MP3Load(copied[output_path])
             mime_type == output_mime(ext, art)
             frs == output_service_frames(mp3.frames, mime_type, art)
             saved == SaveTags(copied[output_path], frs, 3, sv)
         IN  IF fs["src"] = NoFile
             THEN /\ cres' = CRes(FALSE, FALSE, TRUE, "None", NoFrame, art, "")
                  /\ fs' = Unlink(fs, output_path)
             ELSE IF Copy2Raises("src", output_path, cp) \/ mp3.raised
             THEN /\ cres' = CRes(FALSE, FALSE, TRUE, "None", NoFrame, art, "")
                  /\ fs' = Unlink(copied, output_path)
             ELSE IF sv # "ok"
             THEN /\ cres' = CRes(FALSE, FALSE, TRUE, "None", NoFrame, art, mime_type)
                  /\ fs' = Unlink([copied EXCEPT ![output_path] = saved], output_path)
             ELSE /\ cres' = CRes(TRUE, TRUE, FALSE, output_path, NoFrame, art, mime_type)
                  /\ fs' = [copied EXCEPT ![output_path] = saved]
    /\ cop' = "MP3OutputService.embed_artwork"
    /\ UNCHANGED valVars
    /\ UNCHANGED optVars
    /\ UNCHANGED pipVars
    /\ UNCHANGED ccVars
    /\ UNCHANGED ioVars
    /\ UNCHANGED svcVars

\* the MIME type MP3Processor.embed_artwork derives from the extension
\* ("None": unsupported, MP3ProcessingError)
processor_mime(ext) ==
    IF ext = ".jpg" THEN "image/jpeg"
    ELSE IF ext = ".png" THEN "image/png"
    ELSE "None"

\* MP3Processor.copy_with_new_artwork("src", artwork_path, output_path),
\* which calls MP3Processor.embed_artwork(output_path, artwork_path, output_path)
ProcessorCopy ==
    /\ cop = "none"
    /\ \E art \in ArtworkData, ext \in ArtworkExts, cp \in WriteOutcomes, sv \in WriteOutcomes,
          output_path \in OutputPaths :
         LET copied == Copy2(fs, "src", output_path, cp)
             mp3 == MP3Load(copied[output_path])
             mime_type == processor_mime(ext)
             frs == Append(delall_APIC(mp3.frames), PicFrame(mime_type, 3, "Cover", art))
             saved == SaveTags(copied[output_path], frs, 4, sv)
         IN  IF fs["src"] = NoFile
             THEN /\ cres' = CRes(FALSE, FALSE, TRUE, "None", NoFrame, art, "")
                  /\ fs' = Unlink(fs, output_path)
             ELSE IF Copy2Raises("src", output_path, cp) \/ mp3.raised \/ mime_type = "None"
             THEN /\ cres' = CRes(FALSE, FALSE, TRUE, "None", NoFrame, art, "")
                  /\ fs' = Unlink(copied, output_path)
             ELSE IF sv # "ok"
             THEN /\ cres' = CRes(FALSE, FALSE, TRUE, "None", NoFrame, art, mime_type)
                  /\ fs' = Unlink([copied EXCEPT ![output_path] = saved], output_path)
             ELSE /\ cres' = CRes(TRUE, TRUE, FALSE, output_path, NoFrame, art, mime_type)
                  /\ fs' = [copied EXCEPT ![output_path] = saved]
    /\ cop' = "MP3Processor.copy_with_new_artwork"
    /\ UNCHANGED valVars
    /\ UNCHANGED optVars
    /\ UNCHANGED pipVars
    /\ UNCHANGED ccVars
    /\ UNCHANGED ioVars
    /\ UNCHANGED svcVars

-----------------------------------------------------------------------------
(* ArtworkProcessor.process_artwork (force_compliance = True)              *)

\* the result of process_artwork: processed_data is NoBytes for None,
\* optimized tells whether resize_and_optimize ran and filled processing_info
ARes(is_compliant, processed_data, needs_processing, validation_issues, optimized) ==
    [is_compliant |-> is_compliant, processed_data |-> processed_data,
     needs_processing |-> needs_processing, validation_issues |-> validation_issues,
     optimized |-> optimized]

NoARes == ARes(FALSE, NoBytes, FALSE, <<>>, FALSE)

\* process_artwork handing on a re-encoding of valid artwork
process_artwork_valid_reencoded(image_data) ==
    ARes(TRUE, [image_data EXCEPT !.enc = 1], FALSE, <<>>, FALSE)

\* process_artwork on artwork that validates: the bytes are handed on as
\* they are
process_artwork_valid(image_data) ==
    ARes(TRUE, image_data, FALSE, <<>>, FALSE)

\* process_artwork accepting the processed bytes without validating them
process_artwork_processed_unchecked(image_data, processed_data) ==
    ARes(TRUE, processed_data, TRUE, validate_artwork(image_data).issues, TRUE)

\* process_artwork after resize_and_optimize returned processed_data: the
\* processed bytes are validated and kept only when they are valid
process_artwork_processed(image_data, processed_data) ==
    LET is_processed_valid == validate_artwork(processed_data).ok
    IN  ARes(is_processed_valid,
             IF is_processed_valid THEN processed_data ELSE NoBytes,
             TRUE, validate_artwork(image_data).issues, TRUE)

\* the call resize_and_optimize(image_data) made by process_artwork
CallResizeAndOptimize(image_data) ==
    /\ oin' = image_data
    /\ otarget' = "None"
    /\ opc' = "idle"
    /\ oimg' = NoImg
    /\ tfmt' = "None"
    /\ info' = new_processing_info(NoBytes)
    /\ qidx' = 0
    /\ best' = NoBest
    /\ oout' = NoBytes
    /\ UNCHANGED <<encDom, round, first>>

-----------------------------------------------------------------------------
(* FileOperations.process_mp3_file (process_artwork = True)                *)

\* result['artwork_info']
PInfo(had_original, was_compliant, processing_needed, processing_successful, musicbrainz_searched, musicbrainz_found, saved_separately) ==
    [had_original |-> had_original, was_compliant |-> was_compliant,
     processing_needed |-> processing_needed,
     processing_successful |-> processing_successful,
     musicbrainz_searched |-> musicbrainz_searched,
     musicbrainz_found |-> musicbrainz_found,
     saved_separately |-> saved_separately]

NoPInfo == PInfo(FALSE, FALSE, FALSE, FALSE, FALSE, FALSE, FALSE)

\* success, output_path and error of the result
PRes(success, output_path, error) ==
    [success |-> success, output_path |-> output_path, error |-> error]

NoPRes == PRes(FALSE, "None", FALSE)

\* artwork_data as chosen from an artwork_result: the processed bytes when
\* the result is compliant, else None
chosen_artwork(r) ==
    IF r.is_compliant /\ r.processed_data.len > 0 THEN r.processed_data ELSE NoBytes

\* artwork_info after process_artwork ran on the artwork of the file
existing_artwork_info(r) ==
    PInfo(TRUE, r.is_compliant /\ ~r.needs_processing, r.needs_processing,
          r.is_compliant, FALSE, FALSE, FALSE)

\* what the remote provider can deliver for a search: bytes of any kind
TinyGif == Bytes(1, "ok", "GIF", 3, 3, 0, <<>>)
ThinJpeg == Bytes(MAX_FILE_SIZE + 1, "ok", "JPEG", 1, MAX_HEIGHT + 1, 0, <<>>)
Garbage == Bytes(1, "unreadable", "NONE", 0, 0, 0, <<>>)
RemoteArtwork == {SmallJpeg, LargePng, Garbage}

\* bytes of a file whose write stopped half way
Truncated(b) == Bytes(1, "unreadable", "NONE", 0, 0, 0, <<>>)

\* artwork_path.write_bytes(downloaded_data)
WriteBytes(old, data, outcome) ==
    IF outcome = "ok" THEN data
    ELSE IF outcome = "fail" THEN old
    ELSE Truncated(data)

\* process_mp3_file from its entry to the first result of process_artwork:
\* the checks of the input, the branch for an invalid MP3, the extraction
\* of the artwork and its validation
PipeBegin ==
    /\ ppc = "start"
    /\ LET src == fs["src"]
           existing_artwork == extract_artwork(src).value
           image_data == existing_artwork.data
       IN  IF src = NoFile
           THEN /\ pres' = PRes(FALSE, "None", TRUE)
                /\ ppc' = "done"
                /\ UNCHANGED <<pstate, ares, padata, pinfo, artfile, ponline>>
                /\ UNCHANGED optVars
           ELSE IF ~validate_mp3_file(src)
           THEN \* the MP3 is invalid: artwork found for the names parsed from
                \* the file name is saved as a separate file
                /\ \E has_artist \in BOOLEAN, online_artwork \in {NoBytes} \cup RemoteArtwork,
                      wr \in WriteOutcomes :
                     IF has_artist /\ pmb /\ online_artwork # NoBytes
                     THEN /\ ponline' = online_artwork
                          /\ artfile' = WriteBytes(artfile, online_artwork, wr)
                          /\ pinfo' = IF wr = "ok"
                                      THEN PInfo(FALSE, FALSE, FALSE, TRUE, TRUE, TRUE, TRUE)
                                      ELSE pinfo
                     ELSE UNCHANGED <<artfile, pinfo, ponline>>
                /\ pres' = PRes(FALSE, "None", TRUE)
                /\ ppc' = "done"
                /\ UNCHANGED <<pstate, ares, padata>>
                /\ UNCHANGED optVars
           ELSE IF existing_artwork = NoFrame
           THEN /\ pinfo' = NoPInfo
                /\ pstate' = "ExtractionEmpty"
                /\ ppc' = "search"
                /\ UNCHANGED <<ares, padata, pres, artfile, ponline>>
                /\ UNCHANGED optVars
           ELSE IF validate_artwork(image_data).ok
           THEN /\ ares' = process_artwork_valid(image_data)
                /\ pinfo' = existing_artwork_info(ares')
                /\ padata' = chosen_artwork(ares')
                /\ pstate' = "Compliant"
                /\ ppc' = "search"
                /\ UNCHANGED <<pres, artfile, ponline>>
                /\ UNCHANGED optVars
           ELSE /\ CallResizeAndOptimize(image_data)
                /\ pstate' = "NonCompliant"
                /\ ppc' = "optimize_existing"
                /\ UNCHANGED <<ares, padata, pinfo, pres, artfile, ponline>>
    /\ UNCHANGED pmb
    /\ UNCHANGED valVars
    /\ UNCHANGED conVars
    /\ UNCHANGED ccVars
    /\ UNCHANGED ioVars
    /\ UNCHANGED svcVars

\* process_artwork from the return of resize_and_optimize on, and the use
\* process_mp3_file makes of its result
PipeProcessed ==
    /\ ppc \in {"optimize_existing", "optimize_remote"}
    /\ opc = "done"
    /\ ares' = process_artwork_processed(oin, oout)
    /\ pstate' = IF ares'.is_compliant THEN "Optimized" ELSE "OptimizationFailed"
    /\ IF ppc = "optimize_existing"
       THEN /\ pinfo' = existing_artwork_info(ares')
            /\ padata' = chosen_artwork(ares')
            /\ ppc' = "search"
       ELSE /\ pinfo' = IF chosen_artwork(ares') # NoBytes
                        THEN [pinfo EXCEPT !.musicbrainz_found = TRUE,
                                           !.processing_successful = TRUE]
                        ELSE pinfo
            /\ padata' = chosen_artwork(ares')
            /\ ppc' = "copy"
    /\ UNCHANGED <<pmb, pres, artfile, ponline>>
    /\ UNCHANGED valVars
    /\ UNCHANGED optVars
    /\ UNCHANGED conVars
    /\ UNCHANGED ccVars
    /\ UNCHANGED ioVars
    /\ UNCHANGED svcVars

\* the search for artwork online when the file gave no valid artwork, up
\* to the first result of process_artwork on the downloaded bytes
PipeSearch ==
    /\ ppc = "search"
    /\ IF padata = NoBytes /\ pmb
       THEN \E downloaded_data \in {NoBytes} \cup RemoteArtwork :
            /\ ponline' = downloaded_data
            /\ IF downloaded_data = NoBytes
              THEN /\ pinfo' = [pinfo EXCEPT !.musicbrainz_searched = TRUE]
                   /\ ppc' = "copy"
                   /\ UNCHANGED <<pstate, ares, padata>>
                   /\ UNCHANGED optVars
              ELSE IF validate_artwork(downloaded_data).ok
              THEN /\ ares' = process_artwork_valid(downloaded_data)
                   /\ padata' = chosen_artwork(ares')
                   /\ pinfo' = [pinfo EXCEPT !.musicbrainz_searched = TRUE,
                                             !.musicbrainz_found = TRUE,
                                             !.processing_successful = TRUE]
                   /\ pstate' = "Compliant"
                   /\ ppc' = "copy"
                   /\ UNCHANGED optVars
              ELSE /\ CallResizeAndOptimize(downloaded_data)
                   /\ pinfo' = [pinfo EXCEPT !.musicbrainz_searched = TRUE]
                   /\ pstate' = "NonCompliant"
                   /\ ppc' = "optimize_remote"
                   /\ UNCHANGED <<ares, padata>>
       ELSE /\ ppc' = "copy"
            /\ UNCHANGED <<pstate, ares, padata, pinfo, ponline>>
            /\ UNCHANGED optVars
    /\ UNCHANGED <<pmb, pres, artfile>>
    /\ UNCHANGED valVars
    /\ UNCHANGED conVars
    /\ UNCHANGED ccVars
    /\ UNCHANGED ioVars
    /\ UNCHANGED svcVars

\* the last steps of process_mp3_file: the output directory is created and
\* the file copied with the artwork chosen; mk tells whether
\* create_output_folder succeeds
PipeCopy ==
    /\ ppc = "copy"
    /\ \E mk \in BOOLEAN, cp \in WriteOutcomes, sv \in WriteOutcomes :
         LET r == copy_mp3_with_artwork(fs, "src", padata, "image/jpeg", cp, sv)
         IN  IF ~mk
             THEN /\ pres' = PRes(FALSE, "None", TRUE)
                  /\ UNCHANGED <<fs, cres, cop, pstate>>
             ELSE /\ fs' = r.files
                  /\ cres' = r.res
                  /\ cop' = "copy_mp3_with_artwork"
                  /\ pres' = IF r.res.success
                             THEN PRes(TRUE, r.res.out, FALSE)
                             ELSE PRes(FALSE, "None", TRUE)
                  /\ pstate' = IF pstate = "Optimized" /\ r.res.embedded
                               THEN "Embedded" ELSE pstate
    /\ ppc' = "done"
    /\ UNCHANGED <<pmb, ares, padata, pinfo, artfile, ponline>>
    /\ UNCHANGED valVars
    /\ UNCHANGED optVars
    /\ UNCHANGED ccVars
    /\ UNCHANGED ioVars
    /\ UNCHANGED svcVars

-----------------------------------------------------------------------------
(* FileOperations.process_mp3_file_with_choice                             *)

\* user_artwork_choice: None, {'skip_artwork': True} or {'artwork_url': url}
Choices == {"None", "skip_artwork", "artwork_url"}

\* the use process_mp3_file_with_choice makes of artwork_result r for the
\* output output_path of files: the processed bytes are embedded when the
\* result is compliant; res is the result of the last container operation
\* so far and sv the outcome of tags.save()
ChoiceEmbed(files, output_path, res, r, sv) ==
    LET emb == embed_artwork_in_mp3(files[output_path], r.processed_data, "image/jpeg", sv)
    IN  /\ padata' = chosen_artwork(r)
        /\ IF r.is_compliant /\ r.processed_data.len > 0
           THEN /\ fs' = [files EXCEPT ![output_path] = emb.file]
                /\ cres' = CRes(emb.ok, emb.ok, FALSE, output_path, NoFrame,
                                r.processed_data, "image/jpeg")
                /\ cop' = "embed_artwork_in_mp3"
                /\ pinfo' = IF emb.ok
                            THEN PInfo(FALSE, FALSE, TRUE, TRUE, TRUE, TRUE, FALSE)
                            ELSE pinfo
           ELSE /\ fs' = files
                /\ cres' = res
                /\ cop' = "copy_mp3_with_artwork"
                /\ UNCHANGED pinfo

\* process_mp3_file_with_choice from its entry to the first result of
\* process_artwork on the artwork the user selected: the run of
\* process_mp3_file(process_artwork=False), which copies the file without
\* artwork, the early return, the download and the validation
ChoiceBegin ==
    /\ ppc = "choice_start"
    /\ LET src == fs["src"]
       IN  IF src = NoFile \/ ~validate_mp3_file(src)
           THEN /\ pres' = PRes(FALSE, "None", TRUE)
                /\ ppc' = "done"
                /\ UNCHANGED <<ares, padata, pinfo, ponline>>
                /\ UNCHANGED conVars
                /\ UNCHANGED optVars
           ELSE \E mk \in BOOLEAN, cp \in WriteOutcomes, sv \in WriteOutcomes,
                   sv2 \in WriteOutcomes, user_artwork_choice \in Choices,
                   artwork_data \in {NoBytes} \cup RemoteArtwork :
                LET r == copy_mp3_with_artwork(fs, "src", NoBytes, "image/jpeg", cp, sv)
                IN  IF ~mk
                    THEN /\ pres' = PRes(FALSE, "None", TRUE)
                         /\ ppc' = "done"
                         /\ UNCHANGED <<ares, padata, pinfo, ponline>>
                         /\ UNCHANGED conVars
                         /\ UNCHANGED optVars
                    ELSE IF ~r.res.success
                    THEN /\ fs' = r.files
                         /\ cres' = r.res
                         /\ cop' = "copy_mp3_with_artwork"
                         /\ pres' = PRes(FALSE, "None", TRUE)
                         /\ ppc' = "done"
                         /\ UNCHANGED <<ares, padata, pinfo, ponline>>
                         /\ UNCHANGED optVars
                    ELSE IF user_artwork_choice = "artwork_url" /\ pmb /\ artwork_data # NoBytes
                    THEN /\ pres' = PRes(TRUE, r.res.out, FALSE)
                         /\ ponline' = artwork_data
                         /\ IF validate_artwork(artwork_data).ok
                            THEN /\ ares' = process_artwork_valid(artwork_data)
                                 /\ ChoiceEmbed(r.files, r.res.out, r.res, ares', sv2)
                                 /\ ppc' = "done"
                                 /\ UNCHANGED optVars
                            ELSE /\ CallResizeAndOptimize(artwork_data)
                                 /\ fs' = r.files
                                 /\ cres' = r.res
                                 /\ cop' = "copy_mp3_with_artwork"
                                 /\ ppc' = "optimize_choice"
                                 /\ UNCHANGED <<ares, padata, pinfo>>
                    ELSE /\ fs' = r.files
                         /\ cres' = r.res
                         /\ cop' = "copy_mp3_with_artwork"
                         /\ pres' = PRes(TRUE, r.res.out, FALSE)
                         /\ pinfo' = IF user_artwork_choice = "skip_artwork"
                                     THEN NoPInfo ELSE pinfo
                         /\ ppc' = "done"
                         /\ UNCHANGED <<ares, padata, ponline>>
                         /\ UNCHANGED optVars
    /\ UNCHANGED <<pstate, pmb, artfile>>
    /\ UNCHANGED valVars
    /\ UNCHANGED ccVars
    /\ UNCHANGED ioVars
    /\ UNCHANGED svcVars

\* the bytes resize_and_optimize returned embedded without the second
\* validation
ChoiceProcessed_unvalidated ==
    /\ ppc = "optimize_choice"
    /\ opc = "done"
    /\ ares' = process_artwork_processed_unchecked(oin, oout)
    /\ \E sv \in WriteOutcomes : ChoiceEmbed(fs, pres.output_path, cres, ares', sv)
    /\ ppc' = "done"
    /\ UNCHANGED <<pstate, pmb, pres, artfile, ponline>>
    /\ UNCHANGED valVars
    /\ UNCHANGED optVars
    /\ UNCHANGED ccVars
    /\ UNCHANGED ioVars
    /\ UNCHANGED svcVars

\* process_mp3_file_with_choice from the return of resize_and_optimize on:
\* the second validation of process_artwork and the embedding
ChoiceProcessed ==
    /\ ppc = "optimize_choice"
    /\ opc = "done"
    /\ ares' = process_artwork_processed(oin, oout)
    /\ \E sv \in WriteOutcomes : ChoiceEmbed(fs, pres.output_path, cres, ares', sv)
    /\ ppc' = "done"
    /\ UNCHANGED <<pstate, pmb, pres, artfile, ponline>>
    /\ UNCHANGED valVars
    /\ UNCHANGED optVars
    /\ UNCHANGED ccVars
    /\ UNCHANGED ioVars
    /\ UNCHANGED svcVars

-----------------------------------------------------------------------------
(* Calls of copy_mp3_with_artwork running concurrently, one per worker,    *)
(* on sources of the same file name and the same output directory          *)

\* the concurrent calls: two workers
Instances == {1, 2}

\* the source of each call: files of the same name in different directories
SourceOf(i) == IF i = 1 THEN "src" ELSE "src2"

\* one call: its position, its artwork_data, the output_path it generated
\* and the result it returned
Inst(pc, art, path, success, embedded) ==
    [pc |-> pc, art |-> art, path |-> path, success |-> success, embedded |-> embedded]

NoInst == Inst("off", NoBytes, "None", FALSE, FALSE)

\* the call up to the return of generate_unique_filename
CcName(i) ==
    /\ inst[i].pc = "start"
    /\ LET src == fs[SourceOf(i)]
       IN  IF src = NoFile \/ ~validate_mp3_file(src)
           THEN inst' = [inst EXCEPT ![i].pc = "done"]
           ELSE inst' = [inst EXCEPT ![i].pc = "named",
                                     ![i].path = generate_unique_filename(fs)]
    /\ UNCHANGED valVars
    /\ UNCHANGED optVars
    /\ UNCHANGED conVars
    /\ UNCHANGED pipVars
    /\ UNCHANGED ioVars
    /\ UNCHANGED svcVars

\* shutil.copy2(source_path, output_path)
CcCopy(i) ==
    /\ inst[i].pc = "named"
    /\ fs' = Copy2(fs, SourceOf(i), inst[i].path, "ok")
    /\ inst' = [inst EXCEPT ![i].pc = "copied"]
    /\ UNCHANGED <<cres, cop>>
    /\ UNCHANGED valVars
    /\ UNCHANGED optVars
    /\ UNCHANGED pipVars
    /\ UNCHANGED ioVars
    /\ UNCHANGED svcVars

\* the embedding of the artwork into the copy, and the return
CcEmbed(i) ==
    /\ inst[i].pc = "copied"
    /\ LET emb == embed_artwork_in_mp3(fs[inst[i].path], inst[i].art, "image/jpeg", "ok")
       IN  IF artwork_given(inst[i].art)
           THEN /\ fs' = [fs EXCEPT ![inst[i].path] = emb.file]
                /\ inst' = [inst EXCEPT ![i].pc = "done", ![i].success = TRUE,
                                        ![i].embedded = emb.ok]
           ELSE /\ fs' = fs
                /\ inst' = [inst EXCEPT ![i].pc = "done", ![i].success = TRUE]
    /\ UNCHANGED <<cres, cop>>
    /\ UNCHANGED valVars
    /\ UNCHANGED optVars
    /\ UNCHANGED pipVars
    /\ UNCHANGED ioVars
    /\ UNCHANGED svcVars

-----------------------------------------------------------------------------
(* ImageOptimizer._optimize_file_size                                      *)

min_quality == 60

\* the call: its position, format_name, initial_quality, current_quality,
\* the saves made so far (quality and resulting file size), the returned
\* quality (-1 before the return)
Io(pc, format_name, initial_quality, current_quality, saves, result) ==
    [pc |-> pc, format_name |-> format_name, initial_quality |-> initial_quality,
     current_quality |-> current_quality, saves |-> saves, result |-> result]

NoIo == Io("off", "NONE", 0, 0, <<>>, -1)

\* the sizes img.save can produce in the next iteration: a PNG is saved with
\* the same parameters every time and has the size of the first save
IoSaveSizes ==
    IF io.format_name = "PNG" /\ io.saves # <<>> THEN {io.saves[1].size} ELSE encDom

\* one iteration of the loop
IoAttempt ==
    /\ io.pc = "loop"
    /\ io.current_quality >= min_quality
    /\ \E file_size \in IoSaveSizes :
         LET saves1 == Append(io.saves, [q |-> io.current_quality, size |-> file_size])
         IN  IF file_size <= MAX_FILE_SIZE
             THEN io' = [io EXCEPT !.saves = saves1, !.result = io.current_quality,
                                   !.pc = "done"]
             ELSE io' = [io EXCEPT !.saves = saves1,
                                   !.current_quality = io.current_quality - 5]
    /\ UNCHANGED valVars
    /\ UNCHANGED optVars
    /\ UNCHANGED conVars
    /\ UNCHANGED pipVars
    /\ UNCHANGED ccVars
    /\ UNCHANGED uqVars
    /\ UNCHANGED tmVars
    /\ UNCHANGED pjVars
    /\ UNCHANGED oiVars

\* the code after the loop: min_quality is returned
IoExhausted ==
    /\ io.pc = "loop"
    /\ io.current_quality < min_quality
    /\ io' = [io EXCEPT !.result = min_quality, !.pc = "done"]
    /\ UNCHANGED valVars
    /\ UNCHANGED optVars
    /\ UNCHANGED conVars
    /\ UNCHANGED pipVars
    /\ UNCHANGED ccVars
    /\ UNCHANGED uqVars
    /\ UNCHANGED tmVars
    /\ UNCHANGED pjVars
    /\ UNCHANGED oiVars

-----------------------------------------------------------------------------
(* FileOperations.generate_unique_filename on file names                   *)

\* largest number of files in output_dir
MaxUqFiles == 8

\* str(d) for a digit d
Digit(d) == <<"0", "1", "2", "3", "4", "5", "6", "7", "8", "9">>[d + 1]

\* str(n) for a natural number n
RECURSIVE Decimal(_)
Decimal(n) == IF n < 10 THEN Digit(n) ELSE Decimal(n \div 10) \o Digit(n % 10)

\* f"{counter:03d}": the decimal digits, padded with zeros to three
Format03d(counter) ==
    IF counter < 10 THEN "00" \o Decimal(counter)
    ELSE IF counter < 100 THEN "0" \o Decimal(counter)
    ELSE Decimal(counter)

\* the loop of generate_unique_filename from the value counter on; existing
\* is the set of the names for which new_path.exists() holds
RECURSIVE unique_loop(_, _, _, _)
unique_loop(existing, stem, suffix, counter) ==
    LET new_name == stem \o "_" \o Format03d(counter) \o suffix
    IN  IF new_name \notin existing THEN new_name
        ELSE IF counter + 1 > 9999 THEN "ValueError"
        ELSE unique_loop(existing, stem, suffix, counter + 1)

\* generate_unique_filename(output_dir, stem + suffix): the name of the
\* path returned
unique_name(existing, stem, suffix) ==
    IF (stem \o suffix) \notin existing THEN stem \o suffix
    ELSE unique_loop(existing, stem, suffix, 1)

\* a call generate_unique_filename(output_dir, "test.mp3")
UqGenerate ==
    /\ ures = "None"
    /\ ures' = unique_name(udir, "test", ".mp3")
    /\ UNCHANGED udir
    /\ UNCHANGED baseVars
    /\ UNCHANGED tmVars
    /\ UNCHANGED pjVars
    /\ UNCHANGED oiVars

\* the caller creates the file at the path returned (shutil.copy2 in
\* copy_mp3_with_artwork)
UqCreate ==
    /\ ures \notin {"None", "ValueError"}
    /\ Cardinality(udir) < MaxUqFiles
    /\ udir' = udir \cup {ures}
    /\ ures' = "None"
    /\ UNCHANGED baseVars
    /\ UNCHANGED tmVars
    /\ UNCHANGED pjVars
    /\ UNCHANGED oiVars

-----------------------------------------------------------------------------
(* TaskManager: create_task, start_task, cancel_task, the thread of a      *)
(* started task (task_wrapper) and _try_start_queued_tasks                 *)

\* the task ids, numbered in the order in which create_task hands them out
Tasks == {1, 2, 3, 4}

max_concurrent_tasks == 3

\* the thread of a task: its position in task_wrapper, and pending_tasks of
\* its call of _try_start_queued_tasks from the task under the loop on
Work(pc, pending) == [pc |-> pc, pending |-> pending]

NoWork == Work("off", <<>>)

\* a start_task that lets a fourth task run
at_capacity_above(running) == running > max_concurrent_tasks

\* if self.running_tasks >= self.max_concurrent_tasks
at_capacity(running) == running >= max_concurrent_tasks

\* a cancel_task that also cancels a running task
cancellable_running(status) == status \in {"PENDING", "RUNNING"}

\* if task.status == TaskStatus.PENDING, in cancel_task
cancellable(status) == status = "PENDING"

\* start_task(t) under the lock: whether the task is started
starts(t) == tstatus[t] = "PENDING" /\ ~at_capacity(running_tasks)

\* [t for t in self.tasks.values() if t.status == TaskStatus.PENDING]: the
\* tasks are numbered in the order of their creation
RECURSIVE pending_from(_)
pending_from(t) ==
    IF t \notin Tasks THEN <<>>
    ELSE IF tstatus[t] = "PENDING" THEN <<t>> \o pending_from(t + 1)
    ELSE pending_from(t + 1)

\* create_task: the next task id is entered with status PENDING
CreateTask ==
    /\ \E t \in Tasks :
         /\ tstatus[t] = "absent"
         /\ \A u \in Tasks : u < t => tstatus[u] # "absent"
         /\ tstatus' = [tstatus EXCEPT ![t] = "PENDING"]
    /\ UNCHANGED <<running_tasks, texec, twork>>
    /\ UNCHANGED baseVars
    /\ UNCHANGED uqVars
    /\ UNCHANGED pjVars
    /\ UNCHANGED oiVars

\* start_task(t) called from outside the manager; the thread of the task
\* is created when the task is started
StartTask ==
    /\ \E t \in Tasks :
         /\ IF starts(t)
            THEN /\ tstatus' = [tstatus EXCEPT ![t] = "RUNNING"]
                 /\ running_tasks' = running_tasks + 1
                 /\ twork' = [twork EXCEPT ![t] = Work("start", <<>>)]
            ELSE UNCHANGED <<tstatus, running_tasks, twork>>
    /\ UNCHANGED texec
    /\ UNCHANGED baseVars
    /\ UNCHANGED uqVars
    /\ UNCHANGED pjVars
    /\ UNCHANGED oiVars

\* cancel_task(t)
CancelTask ==
    /\ \E t \in Tasks :
         /\ IF cancellable(tstatus[t])
            THEN tstatus' = [tstatus EXCEPT ![t] = "CANCELLED"]
            ELSE UNCHANGED tstatus
    /\ UNCHANGED <<running_tasks, texec, twork>>
    /\ UNCHANGED baseVars
    /\ UNCHANGED uqVars
    /\ UNCHANGED pjVars
    /\ UNCHANGED oiVars

\* task_wrapper calls task.target_func
TaskCall ==
    /\ \E t \in Tasks :
         /\ twork[t].pc = "start"
         /\ texec' = [texec EXCEPT ![t] = TRUE]
         /\ twork' = [twork EXCEPT ![t].pc = "called"]
    /\ UNCHANGED <<tstatus, running_tasks>>
    /\ UNCHANGED baseVars
    /\ UNCHANGED uqVars
    /\ UNCHANGED pjVars
    /\ UNCHANGED oiVars

\* target_func returned: the task is completed under the lock
TaskComplete ==
    /\ \E t \in Tasks :
         /\ twork[t].pc = "called"
         /\ tstatus' = [tstatus EXCEPT ![t] = "COMPLETED"]
         /\ running_tasks' = running_tasks - 1
         /\ twork' = [twork EXCEPT ![t].pc = "queue"]
    /\ UNCHANGED texec
    /\ UNCHANGED baseVars
    /\ UNCHANGED uqVars
    /\ UNCHANGED pjVars
    /\ UNCHANGED oiVars

\* target_func raised: the task is failed under the lock
TaskFail ==
    /\ \E t \in Tasks :
         /\ twork[t].pc = "called"
         /\ tstatus' = [tstatus EXCEPT ![t] = "FAILED"]
         /\ running_tasks' = running_tasks - 1
         /\ twork' = [twork EXCEPT ![t].pc = "queue"]
    /\ UNCHANGED texec
    /\ UNCHANGED baseVars
    /\ UNCHANGED uqVars
    /\ UNCHANGED pjVars
    /\ UNCHANGED oiVars

\* what a thread does with pending_tasks while it holds the lock in
\* _try_start_queued_tasks: with a task left and room for it the lock is
\* released for start_task, otherwise the function returns
queue_step(t, pending) ==
    IF pending # <<>> /\ running_tasks < max_concurrent_tasks
    THEN Work("release", pending)
    ELSE Work("end", <<>>)

\* _try_start_queued_tasks of the thread of a finished task: the lock is
\* taken, pending_tasks computed and the first iteration entered
QueueEnter ==
    /\ \E t \in Tasks :
         /\ twork[t].pc = "queue"
         /\ twork' = [twork EXCEPT ![t] = queue_step(t, pending_from(1))]
    /\ UNCHANGED <<tstatus, running_tasks, texec>>
    /\ UNCHANGED baseVars
    /\ UNCHANGED uqVars
    /\ UNCHANGED pjVars
    /\ UNCHANGED oiVars

\* self.start_task(task_id) with the lock released
QueueStart ==
    /\ \E t \in Tasks :
         /\ twork[t].pc = "release"
         /\ LET u == Head(twork[t].pending)
            IN  /\ IF starts(u)
                   THEN /\ tstatus' = [tstatus EXCEPT ![u] = "RUNNING"]
                        /\ running_tasks' = running_tasks + 1
                        /\ twork' = [twork EXCEPT ![u] = Work("start", <<>>),
                                                  ![t].pc = "acquire"]
                   ELSE /\ twork' = [twork EXCEPT ![t].pc = "acquire"]
                        /\ UNCHANGED <<tstatus, running_tasks>>
    /\ UNCHANGED texec
    /\ UNCHANGED baseVars
    /\ UNCHANGED uqVars
    /\ UNCHANGED pjVars
    /\ UNCHANGED oiVars

\* self.lock.acquire() and the next iteration of the loop
QueueNext ==
    /\ \E t \in Tasks :
         /\ twork[t].pc = "acquire"
         /\ twork' = [twork EXCEPT ![t] = queue_step(t, Tail(twork[t].pending))]
    /\ UNCHANGED <<tstatus, running_tasks, texec>>
    /\ UNCHANGED baseVars
    /\ UNCHANGED uqVars
    /\ UNCHANGED pjVars
    /\ UNCHANGED oiVars

-----------------------------------------------------------------------------
(* ProcessingJob.update_step                                               *)

\* the fields of a ProcessingJob that update_step reads or writes;
\* completed_at tells whether the timestamp is set, steps_completed is the
\* list as a set (update_step appends a step only when it is not in it)
Job(current_step, progress_percent, completed_at, error_message, steps_completed) ==
    [current_step |-> current_step, progress_percent |-> progress_percent,
     completed_at |-> completed_at, error_message |-> error_message,
     steps_completed |-> steps_completed]

NoJob == Job("off", 0, FALSE, "None", {})

\* the steps, ProcessingStep
Steps ==
    { "INITIALIZING", "EXTRACTING_METADATA", "EXTRACTING_ARTWORK", "SEARCHING_MUSICBRAINZ",
      "OPTIMIZING_ARTWORK", "WAITING_USER_SELECTION", "EMBEDDING_ARTWORK",
      "GENERATING_OUTPUT", "COMPLETED", "FAILED" }

\* the steps that carry no weight in the progress
Unweighted == {"WAITING_USER_SELECTION", "COMPLETED", "FAILED"}

\* self.step_weights
step_weights ==
    [s \in Steps |->
        CASE s = "INITIALIZING" -> 5
          [] s = "EXTRACTING_METADATA" -> 15
          [] s = "EXTRACTING_ARTWORK" -> 20
          [] s = "SEARCHING_MUSICBRAINZ" -> 25
          [] s = "OPTIMIZING_ARTWORK" -> 15
          [] s = "EMBEDDING_ARTWORK" -> 10
          [] s = "GENERATING_OUTPUT" -> 10
          [] OTHER -> 0]

\* the sum of the weights of the steps in S
RECURSIVE weight_sum(_)
weight_sum(S) ==
    IF S = {} THEN 0
    ELSE LET s == CHOOSE x \in S : TRUE
         IN  step_weights[s] + weight_sum(S \ {s})

\* min(95, int((completed_weight / total_weight) * 100)); the float product
\* is within one ulp of the quotient of the integers, which int() truncates
progress_of(completed) ==
    LET total_weight == weight_sum(Steps \ Unweighted)
        percent == (weight_sum(completed) * 100) \div total_weight
    IN  IF percent < 95 THEN percent ELSE 95

\* the value of `if error_message:` for the argument: None and the empty
\* string are false
ErrorArgs == {"None", "", "Test error"}

truthy(error_message) == error_message \notin {"None", ""}

\* update_step sets completed_at in the branches for the step argument
\* COMPLETED and FAILED
completes(step, error_message) == step \in {"COMPLETED", "FAILED"}

\* job after update_step(step, error_message)
update_step(j, step, error_message) ==
    LET steps1 == IF step \notin j.steps_completed /\ step \notin Unweighted
                  THEN j.steps_completed \cup {step} ELSE j.steps_completed
    IN  Job(IF truthy(error_message) THEN "FAILED" ELSE step,
            IF step = "COMPLETED" THEN 100
            ELSE IF step = "FAILED" THEN j.progress_percent
            ELSE progress_of(steps1),
            j.completed_at \/ completes(step, error_message),
            IF truthy(error_message) THEN error_message ELSE j.error_message,
            IF step \in {"COMPLETED", "FAILED"} THEN j.steps_completed ELSE steps1)

\* a call of update_step
UpdateStep ==
    /\ job.current_step # "off"
    /\ \E step \in Steps, error_message \in ErrorArgs :
         job' = update_step(job, step, error_message)
    /\ UNCHANGED baseVars
    /\ UNCHANGED uqVars
    /\ UNCHANGED tmVars
    /\ UNCHANGED oiVars

-----------------------------------------------------------------------------
(* ImageOptimizer.optimize_image around its call of _optimize_file_size    *)

\* the call: its position, whether a file exists at output_path, and the
\* result: success, the quality reported, whether the call raised
Oi(pc, exists, success, quality, raised) ==
    [pc |-> pc, exists |-> exists, success |-> success, quality |-> quality,
     raised |-> raised]

NoOi == Oi("off", FALSE, FALSE, -1, FALSE)

\* the code after _optimize_file_size has returned: os.path.getsize raises
\* when no file is at output_path, and every exception becomes an
\* ImageOptimizationError; otherwise the result reports the returned quality
OptimizeImageReturn ==
    /\ oi.pc = "called"
    /\ io.pc = "done"
    /\ IF oi.exists \/ io.saves # <<>>
       THEN oi' = [oi EXCEPT !.pc = "done", !.success = TRUE, !.quality = io.result]
       ELSE oi' = [oi EXCEPT !.pc = "done", !.raised = TRUE]
    /\ UNCHANGED baseVars
    /\ UNCHANGED uqVars
    /\ UNCHANGED tmVars
    /\ UNCHANGED pjVars

-----------------------------------------------------------------------------
(* Values of the variables of the parts a specification does not exercise  *)

ValIdle ==
    /\ vimg = NoBytes
    /\ vres = NoResult

ConIdle ==
    /\ fs = [p \in Paths |-> NoFile]
    /\ cres = NoCRes
    /\ cop = "off"

PipIdle ==
    /\ ppc = "off"
    /\ pstate = "Unvalidated"
    /\ pmb = FALSE
    /\ ares = NoARes
    /\ padata = NoBytes
    /\ pinfo = NoPInfo
    /\ pres = NoPRes
    /\ artfile = NoBytes
    /\ ponline = NoBytes

CcIdle ==
    /\ inst = [i \in Instances |-> NoInst]

IoIdle ==
    /\ io = NoIo

SvcIdle ==
    /\ udir = {}
    /\ ures = "None"
    /\ tstatus = [t \in Tasks |-> "absent"]
    /\ running_tasks = 0
    /\ texec = [t \in Tasks |-> FALSE]
    /\ twork = [t \in Tasks |-> NoWork]
    /\ job = NoJob
    /\ oi = NoOi

OptIdle ==
    /\ encDom = {}
    /\ oin = NoBytes
    /\ otarget = "None"
    /\ opc = "off"
    /\ oimg = NoImg
    /\ tfmt = "None"
    /\ info = new_processing_info(NoBytes)
    /\ qidx = 0
    /\ best = NoBest
    /\ oout = NoBytes
    /\ round = 0
    /\ first = NoFirst

-----------------------------------------------------------------------------
(* Specification of validate_artwork: every input byte string, validated   *)

InitValidate ==
    /\ vimg \in InputBytes(Lens, DecodeClasses, Formats, Dims, Dims)
    /\ vres = NoResult
    /\ OptIdle
    /\ ConIdle
    /\ PipIdle
    /\ CcIdle
    /\ IoIdle
    /\ SvcIdle

NextValidate == Validate

SpecValidate == InitValidate /\ [][NextValidate]_vars

-----------------------------------------------------------------------------
(* Specification of resize_and_optimize: every input image and target      *)
(* format, an encoder that returns a size at or above the byte limit       *)

OptLens == {MAX_FILE_SIZE, MAX_FILE_SIZE + 1}
OptDecodes == {"unreadable", "truncated", "ok"}
OptEncSizes == {MAX_FILE_SIZE, MAX_FILE_SIZE + 1}

InitOptimize ==
    /\ ValIdle
    /\ encDom = OptEncSizes
    /\ oin \in InputBytes(OptLens, OptDecodes, Formats, Dims, Dims)
    /\ otarget \in Targets
    /\ opc = "idle"
    /\ oimg = NoImg
    /\ tfmt = "None"
    /\ info = new_processing_info(NoBytes)
    /\ qidx = 0
    /\ best = NoBest
    /\ oout = NoBytes
    /\ round = 0
    /\ first = NoFirst
    /\ ConIdle
    /\ PipIdle
    /\ CcIdle
    /\ IoIdle
    /\ SvcIdle

NextOptimize ==
    \/ OptStart
    \/ JpegAttempt
    \/ JpegForced
    \/ PngAttempt
    \/ Reapply

SpecOptimize == InitOptimize /\ [][NextOptimize]_vars

-----------------------------------------------------------------------------
(* Specification of the container operations: every source container, one  *)
(* operation on it                                                         *)

InitContainer ==
    /\ ValIdle
    /\ OptIdle
    /\ fs \in { [p \in Paths |-> IF p = "src" THEN f ELSE NoFile] : f \in SourceFiles }
    /\ cres = NoCRes
    /\ cop = "none"
    /\ PipIdle
    /\ CcIdle
    /\ IoIdle
    /\ SvcIdle

NextContainer ==
    \/ Extract
    \/ CopyMp3WithArtwork
    \/ OutputServiceEmbed
    \/ ProcessorCopy

SpecContainer == InitContainer /\ [][NextContainer]_vars

-----------------------------------------------------------------------------
(* Specification of process_mp3_file: every source container of            *)
(* PipeSources, with and without the search for artwork online             *)

PipePayloads == {SmallJpeg, SmallPng, LargePng, TinyGif, ThinJpeg, Garbage}

PipePictures ==
    { PicFrame("image/jpeg", 3, "", d) : d \in PipePayloads }
    \cup { PicFrame("image/jpeg", 4, "", EmptyPayload), PicFrame("image/jpeg", 4, "Back", SmallJpeg) }

PipeSources ==
    { NoFile,
      Mp3File("none", 0, <<>>, TRUE, "audio"),
      Mp3File("bad", 0, <<>>, TRUE, "audio"),
      Mp3File("ok", 3, <<>>, FALSE, "") }
    \cup { Mp3File("ok", 4, <<TextFrame("TIT2", <<"Song">>)>> \o p, TRUE, "audio") :
             p \in SeqsUpTo(PipePictures, 1) }

InitPipeline ==
    /\ ValIdle
    /\ encDom = OptEncSizes
    /\ oin = NoBytes
    /\ otarget = "None"
    /\ opc = "off"
    /\ oimg = NoImg
    /\ tfmt = "None"
    /\ info = new_processing_info(NoBytes)
    /\ qidx = 0
    /\ best = NoBest
    /\ oout = NoBytes
    /\ round = 0
    /\ first = NoFirst
    /\ fs \in { [p \in Paths |-> IF p = "src" THEN f ELSE NoFile] : f \in PipeSources }
    /\ cres = NoCRes
    /\ cop = "off"
    /\ ppc = "start"
    /\ pstate = "Unvalidated"
    /\ pmb \in BOOLEAN
    /\ ares = NoARes
    /\ padata = NoBytes
    /\ pinfo = NoPInfo
    /\ pres = NoPRes
    /\ artfile = NoBytes
    /\ ponline = NoBytes
    /\ CcIdle
    /\ IoIdle
    /\ SvcIdle

NextPipeline ==
    \/ PipeBegin
    \/ OptStart
    \/ JpegAttempt
    \/ JpegForced
    \/ PngAttempt
    \/ PipeProcessed
    \/ PipeSearch
    \/ PipeCopy

SpecPipeline == InitPipeline /\ [][NextPipeline]_vars

-----------------------------------------------------------------------------
(* Specification of the two entries of FileOperations that embed artwork:  *)
(* process_mp3_file as in SpecPipeline, and process_mp3_file_with_choice   *)
(* for every source, choice of the user and download                       *)

InitChoice ==
    /\ ValIdle
    /\ encDom = OptEncSizes
    /\ oin = NoBytes
    /\ otarget = "None"
    /\ opc = "off"
    /\ oimg = NoImg
    /\ tfmt = "None"
    /\ info = new_processing_info(NoBytes)
    /\ qidx = 0
    /\ best = NoBest
    /\ oout = NoBytes
    /\ round = 0
    /\ first = NoFirst
    /\ fs \in { [p \in Paths |-> IF p = "src" THEN f ELSE NoFile] : f \in PipeSources }
    /\ cres = NoCRes
    /\ cop = "off"
    /\ ppc = "choice_start"
    /\ pstate = "Unvalidated"
    /\ pmb \in BOOLEAN
    /\ ares = NoARes
    /\ padata = NoBytes
    /\ pinfo = NoPInfo
    /\ pres = NoPRes
    /\ artfile = NoBytes
    /\ ponline = NoBytes
    /\ CcIdle
    /\ IoIdle
    /\ SvcIdle

InitEmbedders == InitPipeline \/ InitChoice

NextEmbedders ==
    \/ NextPipeline
    \/ ChoiceBegin
    \/ ChoiceProcessed

SpecEmbedders == InitEmbedders /\ [][NextEmbedders]_vars

-----------------------------------------------------------------------------
(* Specification of the concurrent calls: two valid sources of the same    *)
(* name, an empty output directory, every interleaving of the calls        *)

CcSources ==
    { Mp3File("none", 0, <<>>, TRUE, "audio") }
    \cup { Mp3File("ok", 4, <<TextFrame("TIT2", <<t>>)>> \o p, TRUE, "audio") :
             t \in {"Song", "Other"}, p \in SeqsUpTo({PicFrame("image/jpeg", 3, "", SmallJpeg)}, 1) }

InitConcurrent ==
    /\ ValIdle
    /\ OptIdle
    /\ PipIdle
    /\ fs \in { [p \in Paths |-> IF p = "src" THEN f ELSE IF p = "src2" THEN g ELSE NoFile] :
                   f \in CcSources, g \in CcSources }
    /\ cres = NoCRes
    /\ cop = "off"
    /\ inst \in { [i \in Instances |-> Inst("start", a[i], "None", FALSE, FALSE)] :
                     a \in [Instances -> {NoBytes, SmallJpeg, SmallPng}] }
    /\ IoIdle
    /\ SvcIdle

NextConcurrent ==
    \E i \in Instances :
        \/ CcName(i)
        \/ CcCopy(i)
        \/ CcEmbed(i)

SpecConcurrent == InitConcurrent /\ [][NextConcurrent]_vars

-----------------------------------------------------------------------------
(* Specification of the two quality searches: resize_and_optimize as in    *)
(* SpecOptimize, and ImageOptimizer._optimize_file_size for every format   *)
(* and a choice of initial qualities                                       *)

IoQualities == {95, 97, 85, 60, 55}

InitImageOptimizer ==
    /\ ValIdle
    /\ encDom = OptEncSizes
    /\ oin = NoBytes
    /\ otarget = "None"
    /\ opc = "off"
    /\ oimg = NoImg
    /\ tfmt = "None"
    /\ info = new_processing_info(NoBytes)
    /\ qidx = 0
    /\ best = NoBest
    /\ oout = NoBytes
    /\ round = 0
    /\ first = NoFirst
    /\ ConIdle
    /\ PipIdle
    /\ CcIdle
    /\ io \in { Io("loop", f, q, q, <<>>, -1) : f \in SUPPORTED_FORMATS, q \in IoQualities }
    /\ SvcIdle

NextImageOptimizer ==
    \/ IoAttempt
    \/ IoExhausted

InitLadder == InitOptimize \/ InitImageOptimizer

NextLadder == NextOptimize \/ NextImageOptimizer

SpecLadder == InitLadder /\ [][NextLadder]_vars

\* the two searches are sequential code: a step that can be taken is taken
SpecLadderFair == SpecLadder /\ WF_vars(NextLadder)

-----------------------------------------------------------------------------
(* Specification of ImageOptimizer.optimize_image: every format, a choice  *)
(* of qualities, an output_path with or without a file (the temporary file *)
(* of _generate_temp_path exists, a path given by the caller may not)      *)

InitOptimizeImage ==
    /\ ValIdle
    /\ encDom = OptEncSizes
    /\ oin = NoBytes
    /\ otarget = "None"
    /\ opc = "off"
    /\ oimg = NoImg
    /\ tfmt = "None"
    /\ info = new_processing_info(NoBytes)
    /\ qidx = 0
    /\ best = NoBest
    /\ oout = NoBytes
    /\ round = 0
    /\ first = NoFirst
    /\ ConIdle
    /\ PipIdle
    /\ CcIdle
    /\ io \in { Io("loop", f, q, q, <<>>, -1) : f \in SUPPORTED_FORMATS, q \in IoQualities }
    /\ udir = {}
    /\ ures = "None"
    /\ tstatus = [t \in Tasks |-> "absent"]
    /\ running_tasks = 0
    /\ texec = [t \in Tasks |-> FALSE]
    /\ twork = [t \in Tasks |-> NoWork]
    /\ job = NoJob
    /\ oi \in { Oi("called", e, FALSE, -1, FALSE) : e \in BOOLEAN }

NextOptimizeImage ==
    \/ IoAttempt
    \/ IoExhausted
    \/ OptimizeImageReturn

SpecOptimizeImage == InitOptimizeImage /\ [][NextOptimizeImage]_vars

-----------------------------------------------------------------------------
(* Specification of resize_and_optimize with an encoder that can return    *)
(* two different sizes over the byte limit, on one PNG and one JPEG too    *)
(* large in bytes                                                          *)

BestEffortEncSizes == {MAX_FILE_SIZE, MAX_FILE_SIZE + 1, MAX_FILE_SIZE + 2}

BestEffortInputs ==
    { Bytes(MAX_FILE_SIZE + 1, "ok", f, MAX_WIDTH, MAX_HEIGHT, 0, <<>>) : f \in SUPPORTED_FORMATS }

InitBestEffort ==
    /\ ValIdle
    /\ encDom = BestEffortEncSizes
    /\ oin \in BestEffortInputs
    /\ otarget = "None"
    /\ opc = "idle"
    /\ oimg = NoImg
    /\ tfmt = "None"
    /\ info = new_processing_info(NoBytes)
    /\ qidx = 0
    /\ best = NoBest
    /\ oout = NoBytes
    /\ round = 0
    /\ first = NoFirst
    /\ ConIdle
    /\ PipIdle
    /\ CcIdle
    /\ IoIdle
    /\ SvcIdle

SpecBestEffort == InitBestEffort /\ [][NextOptimize]_vars

-----------------------------------------------------------------------------
(* Specification of generate_unique_filename: every output directory that  *)
(* holds some of the names in UqNames, calls for "test.mp3" and the        *)
(* creation of the files returned                                          *)

UqNames ==
    { "test.mp3", "test_001.mp3", "test_002.mp3", "test_003.mp3",
      "test (1).mp3", "test (2).mp3", "other.mp3" }

InitUnique ==
    /\ ValIdle
    /\ OptIdle
    /\ ConIdle
    /\ PipIdle
    /\ CcIdle
    /\ IoIdle
    /\ udir \in SUBSET UqNames
    /\ ures = "None"
    /\ tstatus = [t \in Tasks |-> "absent"]
    /\ running_tasks = 0
    /\ texec = [t \in Tasks |-> FALSE]
    /\ twork = [t \in Tasks |-> NoWork]
    /\ job = NoJob
    /\ oi = NoOi

NextUnique ==
    \/ UqGenerate
    \/ UqCreate

SpecUnique == InitUnique /\ [][NextUnique]_vars

-----------------------------------------------------------------------------
(* Specification of TaskManager: a new manager, tasks created, started and *)
(* cancelled from outside while the threads of the started tasks run       *)

InitTasks ==
    /\ ValIdle
    /\ OptIdle
    /\ ConIdle
    /\ PipIdle
    /\ CcIdle
    /\ IoIdle
    /\ SvcIdle

NextTasks ==
    \/ CreateTask
    \/ StartTask
    \/ CancelTask
    \/ TaskCall
    \/ TaskComplete
    \/ TaskFail
    \/ QueueEnter
    \/ QueueStart
    \/ QueueNext

SpecTasks == InitTasks /\ [][NextTasks]_vars

-----------------------------------------------------------------------------
(* Specification of ProcessingJob: a new job and any sequence of calls of  *)
(* update_step                                                             *)

InitJob ==
    /\ ValIdle
    /\ OptIdle
    /\ ConIdle
    /\ PipIdle
    /\ CcIdle
    /\ IoIdle
    /\ udir = {}
    /\ ures = "None"
    /\ tstatus = [t \in Tasks |-> "absent"]
    /\ running_tasks = 0
    /\ texec = [t \in Tasks |-> FALSE]
    /\ twork = [t \in Tasks |-> NoWork]
    /\ job = Job("INITIALIZING", 0, FALSE, "None", {})
    /\ oi = NoOi

NextJob == UpdateStep

SpecJob == InitJob /\ [][NextJob]_vars

-----------------------------------------------------------------------------
(* The program: any of its parts                                           *)

Init == InitValidate \/ InitOptimize \/ InitContainer \/ InitPipeline \/ InitConcurrent
        \/ InitImageOptimizer \/ InitBestEffort \/ InitUnique \/ InitTasks
        \/ InitJob \/ InitOptimizeImage \/ InitChoice

Next == NextValidate \/ NextOptimize \/ NextContainer \/ NextPipeline \/ NextConcurrent
        \/ NextImageOptimizer \/ NextUnique \/ NextTasks
        \/ NextJob \/ OptimizeImageReturn \/ ChoiceBegin \/ ChoiceProcessed

Spec == Init /\ [][Next]_vars

-----------------------------------------------------------------------------
(* Properties of validate_artwork (SpecValidate)                           *)

\* validate_artwork has returned
Validated == vres # NoResult

\* the bytes decode as far as validate_artwork looks: Image.open and
\* img.verify() succeed
Decodable(b) == OpenOk(b) /\ VerifyOk(b)

\* C1: every image with width <= 500, height <= 500, byte length <= the byte
\* limit and format JPEG or PNG validates ok with an empty issue list.
C1_CompliantIsValid ==
    (/\ Validated
     /\ Decodable(vimg)
     /\ vimg.w <= 500 /\ vimg.h <= 500
     /\ vimg.len <= 500 * 1024
     /\ vimg.fmt \in {"JPEG", "PNG"})
    => (vres.ok /\ vres.issues = <<>>)

C1_Witness ==
    /\ Validated
    /\ Decodable(vimg)
    /\ vimg.w = 500 /\ vimg.h = 500 /\ vimg.len = 500 * 1024 /\ vimg.fmt = "PNG"
    /\ vres.ok

\* number of entries of the issue list equal to k
CountIssue(issues, k) == Cardinality({ i \in 1..Len(issues) : issues[i] = k })

\* C2 as stated: every byte string that cannot be decoded as an image,
\* whatever its length, validates to ok = false with the issue list
\* [Corrupt] and nothing else.
C2_OnlyCorrupt ==
    (Validated /\ ~Decodable(vimg))
    => (~vres.ok /\ vres.issues = <<"Corrupt">>)

\* C2 amended: every byte string that cannot be decoded validates to
\* ok = false with exactly one Corrupt issue, the last of the list; a size
\* issue accompanies it exactly when the byte length exceeds the limit, and
\* no format or dimension issue is emitted when Image.open itself fails.
C2_CorruptLastWithSize ==
    (Validated /\ ~Decodable(vimg))
    => (/\ ~vres.ok
        /\ CountIssue(vres.issues, "Corrupt") = 1
        /\ vres.issues[Len(vres.issues)] = "Corrupt"
        /\ (CountIssue(vres.issues, "TooLarge") = 1) = (vimg.len > 500 * 1024)
        /\ CountIssue(vres.issues, "TooLarge") <= 1
        /\ (~OpenOk(vimg) =>
              \A i \in 1..Len(vres.issues) : vres.issues[i] \in {"TooLarge", "Corrupt"}))

C2_Witness ==
    /\ Validated
    /\ ~OpenOk(vimg)
    /\ vimg.len > 500 * 1024
    /\ vres.issues = <<"TooLarge", "Corrupt">>

\* the checks of the compliance specification an image fails
FailingChecks(b) ==
    (IF b.len > 500 * 1024 THEN {"TooLarge"} ELSE {})
    \cup (IF b.w > 500 THEN {"TooWide"} ELSE {})
    \cup (IF b.h > 500 THEN {"TooTall"} ELSE {})
    \cup (IF b.fmt \notin {"JPEG", "PNG"} THEN {"UnsupportedFormat"} ELSE {})

\* C3: for a decodable image the issue list holds exactly one issue per
\* failing check among size, width, height and format, and nothing else;
\* ok is true iff the list is empty.
C3_OneIssuePerFailingCheck ==
    (Validated /\ Decodable(vimg))
    => (/\ { vres.issues[i] : i \in 1..Len(vres.issues) } = FailingChecks(vimg)
        /\ Len(vres.issues) = Cardinality(FailingChecks(vimg))
        /\ vres.ok = (vres.issues = <<>>))

C3_Witness ==
    /\ Validated
    /\ Decodable(vimg)
    /\ Len(vres.issues) = 4
    /\ ~vres.ok

-----------------------------------------------------------------------------
(* Properties of resize_and_optimize (SpecOptimize)                        *)

\* the first call of resize_and_optimize has returned
FirstDone == round >= 1

Abs(x) == IF x < 0 THEN -x ELSE x

\* |w1/h1 - w2/h2| < 0.01, for positive heights
AspectClose(w1, h1, w2, h2) == 100 * Abs(w1 * h2 - w2 * h1) < h1 * h2

\* C4: for every image wider or taller than 500 the output of optimize is at
\* most 500 wide and 500 tall, at least 1 in both dimensions, and its aspect
\* ratio differs from the original by less than 0.01.
C4_ResizedWithinLimits ==
    (/\ FirstDone
     /\ first.in.dec = "ok"
     /\ (first.in.w > 500 \/ first.in.h > 500))
    => (/\ first.out.w <= 500 /\ first.out.h <= 500
        /\ first.out.w >= 1 /\ first.out.h >= 1
        /\ AspectClose(first.in.w, first.in.h, first.out.w, first.out.h))

\* the trace holds an attempt for every quality of the ladder
LadderExhausted(adjs) ==
    \A i \in 1..Len(quality_levels) :
        \E k \in 1..Len(adjs) : adjs[k].kind = "jpeg_try" /\ adjs[k].q = quality_levels[i]

\* the trace marks the result as forced
FlaggedDegraded(adjs) == \E k \in 1..Len(adjs) : adjs[k].kind = "jpeg_forced"

\* C5: for every image longer than the byte limit the output of optimize is
\* within the limit, or the trace shows every step of the quality ladder and
\* the result is flagged as degraded.
C5_WithinBudgetOrDegraded ==
    (/\ opc = "done" /\ round = 1
     /\ first.in.dec = "ok"
     /\ first.in.len > 500 * 1024)
    => (\/ oout.len <= 500 * 1024
        \/ (/\ LadderExhausted(info.quality_adjustments)
            /\ FlaggedDegraded(info.quality_adjustments)))

-----------------------------------------------------------------------------
(* Properties of extraction and embedding (SpecContainer)                  *)

EmbedOps ==
    {"copy_mp3_with_artwork", "MP3OutputService.embed_artwork",
     "MP3Processor.copy_with_new_artwork"}

\* an embed has reported the artwork as embedded
Embedded == cop \in EmbedOps /\ cres.embedded

Pictures(f) == SelectSeq(f.frames, IsAPIC)
NonPictures(f) == SelectSeq(f.frames, NotAPIC)

\* C7: after a successful embed on a container with any number of picture
\* frames, of any types and descriptions, the output holds exactly one
\* picture frame, of type front cover (3), carrying the supplied bytes.
C7_OneFrontCover ==
    Embedded =>
        LET pics == Pictures(fs[cres.out])
        IN  /\ Len(pics) = 1
            /\ pics[1].type = 3
            /\ pics[1].data = cres.art

C7_Witness ==
    /\ Embedded
    /\ cop = "MP3OutputService.embed_artwork"
    /\ Len(Pictures(fs["src"])) = 2
    /\ \E i \in 1..2 : Pictures(fs["src"])[i].type = 4 /\ Pictures(fs["src"])[i].desc = "Back"
    /\ Len(Pictures(fs["out"])) = 1

\* C8: embed leaves every non-picture frame and the audio stream of the
\* output byte-equal to those of the source.
C8_NonPicturesUntouched ==
    Embedded =>
        /\ NonPictures(fs[cres.out]) = NonPictures(fs["src"])
        /\ fs[cres.out].audio = fs["src"].audio

SeqMax(S) == CHOOSE m \in S : \A x \in S : x <= m

\* C9: extract returns a frame of type 3 whenever the container has one;
\* otherwise, when the container has a picture frame, a frame whose payload
\* length is the maximum over all frames, also when every payload is empty;
\* None only when the container has no picture frame.
C9_SelectionRule ==
    (cop = "extract" /\ ~MP3Load(fs["src"]).raised) =>
        LET pics == Pictures(fs["src"])
            lens == { pics[i].data.len : i \in 1..Len(pics) }
            hasFront == \E i \in 1..Len(pics) : pics[i].type = 3
        IN  /\ hasFront => cres.value.type = 3
            /\ (~hasFront /\ pics # <<>>) =>
                  /\ \E i \in 1..Len(pics) : pics[i] = cres.value
                  /\ cres.value.data.len = SeqMax(lens)
            /\ (cres.value = NoFrame) => (pics = <<>>)

\* the container has no tag header, an empty tag or a malformed tag header
NoUsableTag(f) ==
    \/ f.hdr \in {"none", "bad"}
    \/ (f.hdr = "ok" /\ f.frames = <<>>)

\* C10: extract never raises; on a container without tag header, with an
\* empty tag or with a malformed tag header it returns None; it changes no
\* file.
C10_ExtractTolerant ==
    /\ [](cop = "extract" =>
            /\ ~cres.raised
            /\ NoUsableTag(fs["src"]) => cres.value = NoFrame)
    /\ [][cop' = "extract" => fs' = fs]_vars

C10_Witness ==
    /\ cop = "extract"
    /\ fs["src"].hdr = "bad"
    /\ cres.value = NoFrame
    /\ ~cres.raised

\* the paths of the output directory
OutputDir == {"out", "out_001"}

\* the container holds a picture frame carrying the bytes b
HoldsPicture(f, b) ==
    \E i \in 1..Len(Pictures(f)) : Pictures(f)[i].data = b

\* the embed reached tags.save() and the save failed: copy_mp3_with_artwork
\* then returns with artwork_embedded false for artwork it was given; the
\* two services raise after the MIME type was determined
PersistFailed ==
    \/ /\ cop = "copy_mp3_with_artwork"
       /\ cres.success /\ cres.art.len > 0 /\ ~cres.embedded
    \/ /\ cop \in {"MP3OutputService.embed_artwork", "MP3Processor.copy_with_new_artwork"}
       /\ cres.raised /\ cres.mime # ""

\* C11: when persisting the tag fails during an embed, the operation reports
\* a failure and leaves no file at the output path: the caller never gets a
\* success result naming an output that lacks the new picture frame, and
\* after a reported failure the output directory holds no file.
C11_PersistFailureReported ==
    /\ PersistFailed =>
          /\ ~cres.success
          /\ \A p \in OutputDir : fs[p] = NoFile
    /\ (cop \in EmbedOps /\ cres.art.len > 0 /\ cres.success /\ cres.out # "None") =>
          HoldsPicture(fs[cres.out], cres.art)

\* C12: no operation, on its success path or on an error path, with the
\* output path fresh or equal to the source path, changes the source MP3.
C12_SourceUntouched == [][fs'["src"] = fs["src"]]_vars

\* the file is a container written to its end
CompletelyWritten(f) == f # NoFile /\ f # Damaged(f)

\* C13: whatever step of an embed fails, every path of the output directory
\* is absent or holds a completely written container.
C13_OutputAbsentOrComplete ==
    \A p \in OutputDir : fs[p] = NoFile \/ CompletelyWritten(fs[p])

-----------------------------------------------------------------------------
(* Properties of process_mp3_file (SpecPipeline)                           *)

\* the frame extract_artwork finds in the source
ExistingArtwork == extract_artwork(fs["src"]).value

\* process_mp3_file got past the checks of its input
PipeRunning == ppc \in {"optimize_existing", "search", "optimize_remote", "copy", "done"}

\* the artwork of the source was extracted and validates
ExistingCompliant ==
    /\ PipeRunning
    /\ validate_mp3_file(fs["src"])
    /\ ExistingArtwork # NoFrame
    /\ validate_artwork(ExistingArtwork.data).ok

\* C14: when the extracted artwork passes validate, the pipeline never calls
\* resize_and_optimize, hands the original bytes on as the artwork to embed,
\* and the picture frame of the output carries exactly these bytes.
C14_CompliantPassThrough ==
    ExistingCompliant =>
        /\ opc = "off" /\ round = 0
        /\ ares.is_compliant /\ ~ares.optimized
        /\ ares.processed_data = ExistingArtwork.data
        /\ padata = ExistingArtwork.data
        /\ (ppc = "done" /\ cres.embedded) =>
              /\ cres.art = ExistingArtwork.data
              /\ Len(Pictures(fs[cres.out])) = 1
              /\ Pictures(fs[cres.out])[1].data = ExistingArtwork.data

C14_Witness ==
    /\ ExistingCompliant
    /\ ppc = "done" /\ cres.embedded
    /\ ExistingArtwork.data = SmallPng
    /\ HoldsPicture(fs["out"], SmallPng)
    /\ opc = "off"

\* process_artwork has returned from a call in which resize_and_optimize
\* ran without an internal error and its bytes failed the second validation
OptimizedStillInvalid ==
    /\ ppc \in {"search", "copy", "done"}
    /\ ares.optimized
    /\ opc = "done" /\ info.error = "None"
    /\ ~validate_artwork(oout).ok

\* C15: when the optimized bytes fail re-validation, the result of the
\* pipeline reports non-compliance and still carries the optimized bytes.
C15_DegradedBytesKept ==
    OptimizedStillInvalid =>
        /\ ~ares.is_compliant
        /\ ares.processed_data = oout

\* C16: bytes obtained from the remote provider reach a file only after
\* they passed validate, or optimize and the second validate: the artwork
\* file saved next to an invalid MP3 holds valid artwork, and so does the
\* picture frame embedded from a download.
C16_RemoteValidatedBeforeWritten ==
    /\ pinfo.saved_separately => validate_artwork(artfile).ok
    /\ (ppc = "done" /\ cres.embedded /\ pinfo.musicbrainz_found) =>
          validate_artwork(cres.art).ok

\* the terminal states of the artwork pipeline
TerminalStates == {"Compliant", "Embedded", "OptimizationFailed", "ExtractionEmpty"}

\* the transitions of the state diagram
DiagramTransitions ==
    { <<"Unvalidated", "Compliant">>, <<"Unvalidated", "NonCompliant">>,
      <<"NonCompliant", "Optimized">>, <<"Optimized", "Embedded">>,
      <<"NonCompliant", "OptimizationFailed">>, <<"Unvalidated", "ExtractionEmpty">> }

\* the transitions taken when the online search supplies artwork for a file
\* that gave none
SearchTransitions ==
    { <<"ExtractionEmpty", "Compliant">>, <<"ExtractionEmpty", "NonCompliant">>,
      <<"OptimizationFailed", "Compliant">>, <<"OptimizationFailed", "NonCompliant">> }

\* the state is Embedded only when the bytes embedded are the optimized
\* bytes and these passed the second validation
EmbeddedAfterRevalidation ==
    pstate = "Embedded" =>
        /\ ares.optimized /\ ares.is_compliant
        /\ opc = "done" /\ validate_artwork(oout).ok
        /\ cres.embedded /\ cres.art = oout
        /\ HoldsPicture(fs[cres.out], oout)

\* the run is one of the artwork pipeline: its source is a valid MP3
PipelineRun == fs["src"] # NoFile /\ validate_mp3_file(fs["src"])

ExtractionFoundNothing ==
    /\ PipeRunning
    /\ PipelineRun
    /\ ExistingArtwork = NoFrame

\* the run validated, optimized or embedded nothing, and every picture
\* frame of the output it wrote is a frame the source already had
NothingDoneForArtwork ==
    /\ pstate = "ExtractionEmpty"
    /\ ares = NoARes
    /\ opc = "off"
    /\ ppc = "done" =>
          /\ ~cres.embedded
          /\ cres.out # "None" =>
                \A i \in 1..Len(Pictures(fs[cres.out])) :
                    \E j \in 1..Len(Pictures(fs["src"])) :
                        Pictures(fs[cres.out])[i] = Pictures(fs["src"])[j]

\* C19 as stated: when extraction finds no artwork the run stays in
\* ExtractionEmpty, nothing is validated, optimized or embedded, and no
\* picture frame is written to the output.
C19_ExtractionEmptyTerminates ==
    ExtractionFoundNothing => NothingDoneForArtwork

\* C19 amended: the same, for the runs in which the online search is
\* disabled or returned no artwork.
C19_ExtractionEmptyWithoutDownload ==
    (ExtractionFoundNothing /\ ponline = NoBytes) => NothingDoneForArtwork

\* a finished run with the search enabled that found no artwork in the
\* file, none online, and wrote the output
C19_Witness ==
    /\ ExtractionFoundNothing
    /\ ppc = "done" /\ pmb /\ ponline = NoBytes
    /\ pinfo.musicbrainz_searched
    /\ pres.success /\ fs["out"] # NoFile
    /\ pstate = "ExtractionEmpty"

-----------------------------------------------------------------------------
(* Properties of the concurrent calls (SpecConcurrent)                     *)

\* the file the call of worker i leaves at its output path when it runs alone
AloneOutput(i) ==
    IF artwork_given(inst[i].art)
    THEN embed_artwork_in_mp3(fs[SourceOf(i)], inst[i].art, "image/jpeg", "ok").file
    ELSE fs[SourceOf(i)]

\* C17: two calls working on different sources never write the same output
\* path, and once a call has returned successfully the file at its output
\* path is the one it produces when it runs alone.
C17_NoInterference ==
    \A i \in Instances :
        /\ \A j \in Instances :
              (i # j /\ inst[i].path # "None" /\ inst[j].path # "None")
                  => inst[i].path # inst[j].path
        /\ (\A k \in Instances : inst[k].pc = "done") /\ inst[i].success
              => fs[inst[i].path] = AloneOutput(i)

-----------------------------------------------------------------------------
(* Properties of the quality searches (SpecLadder)                         *)

IsJpegTry(a) == a.kind = "jpeg_try"

\* the attempts _optimize_jpeg recorded, in the order it made them
JpegTries == SelectSeq(info.quality_adjustments, IsJpegTry)

\* the entries recording the quality _optimize_jpeg settled on
IsJpegFinal(a) == a.kind = "jpeg_final"

JpegFinals == SelectSeq(info.quality_adjustments, IsJpegFinal)

\* the attempts in t were made at strictly descending qualities, every
\* attempt but the last one was over the budget, and an attempt that fits
\* at the first quality is the only one
DescendingUntilFit(t) ==
    /\ \A i \in 1..Len(t) : \A j \in 1..Len(t) : i < j => t[i].q > t[j].q
    /\ \A i \in 1..Len(t) : i < Len(t) => t[i].size > MAX_FILE_SIZE
    /\ (Len(t) >= 1 /\ t[1].size <= MAX_FILE_SIZE) => Len(t) = 1

\* C20: the JPEG search of resize_and_optimize tries the qualities of the
\* ladder from the top in strictly descending order and makes no attempt
\* after the first one that fits the budget; the quality it records as
\* final is the one of that attempt, all higher ones having been tried and
\* found too large, and the bytes returned are the ones of that attempt.
\* The quality search of ImageOptimizer does the same from its initial
\* quality in steps of five.
C20_LadderStopsAtFirstFit ==
    /\ DescendingUntilFit(JpegTries)
    /\ \A i \in 1..Len(JpegTries) : JpegTries[i].q = quality_levels[i]
    /\ Len(JpegFinals) <= 1
    /\ Len(JpegFinals) = 1 =>
          /\ Len(JpegTries) >= 1
          /\ JpegTries[Len(JpegTries)].size <= MAX_FILE_SIZE
          /\ JpegFinals[1].q = JpegTries[Len(JpegTries)].q
          /\ info.quality_adjustments[Len(info.quality_adjustments)] = JpegFinals[1]
          /\ opc = "done" /\ oout.len = JpegTries[Len(JpegTries)].size
    /\ (Len(JpegTries) >= 1 /\ JpegTries[Len(JpegTries)].size <= MAX_FILE_SIZE)
          => Len(JpegFinals) = 1
    /\ io.format_name = "JPEG" =>
          /\ DescendingUntilFit(io.saves)
          /\ \A i \in 1..Len(io.saves) :
                io.saves[i].q = io.initial_quality - 5 * (i - 1)
          /\ (io.saves # <<>> /\ io.saves[Len(io.saves)].size <= MAX_FILE_SIZE) =>
                /\ io.pc = "done"
                /\ io.result = io.saves[Len(io.saves)].q

\* a finished search that found the third quality of the ladder to fit
C20_Witness ==
    /\ opc = "done"
    /\ Len(JpegTries) = 3
    /\ JpegTries[3].size <= MAX_FILE_SIZE
    /\ JpegFinals = <<Adj("jpeg_final", 85, -1)>>

-----------------------------------------------------------------------------
(* Properties of the best-effort result (SpecBestEffort)                   *)

\* the entries of the trace that stand for an encoding made
IsAttempt(a) == a.kind \in {"png_try", "jpeg_try", "jpeg_forced"}

Attempts == SelectSeq(info.quality_adjustments, IsAttempt)

\* resize_and_optimize returned bytes over the budget without an error:
\* no encoding it made met the budget
NoAttemptFit ==
    /\ opc = "done"
    /\ info.error = "None"
    /\ oout.len > MAX_FILE_SIZE

\* every encoding made is listed with the size it had
TraceComplete == \A i \in 1..Len(Attempts) : Attempts[i].size >= 0

\* the bytes returned are no larger than any encoding listed with its size
SmallestReturned ==
    \A i \in 1..Len(Attempts) : Attempts[i].size >= 0 => oout.len <= Attempts[i].size

\* C21: when no encoding met the budget, the bytes returned are the
\* smallest encoding made, and the trace lists every encoding made with
\* its parameters and its size.
C21_SmallestWithFullTrace ==
    NoAttemptFit => (TraceComplete /\ SmallestReturned)

-----------------------------------------------------------------------------
(* Properties of the PNG search (SpecOptimize)                             *)

IsPngTry(a) == a.kind = "png_try"

\* the encodings _optimize_png recorded
PngTries == SelectSeq(info.quality_adjustments, IsPngTry)

\* resize_and_optimize returned without an error from a search that
\* started with the PNG strategies
PngTargetDone ==
    /\ opc = "done"
    /\ info.error = "None"
    /\ tfmt = "PNG"

\* every PNG strategy was tried and none met the budget
NoPngStrategyFit ==
    /\ Len(PngTries) = Len(strategies)
    /\ \A i \in 1..Len(PngTries) : PngTries[i].size > MAX_FILE_SIZE

\* the format the result stands for: processing_info records the format
\* only as format_changed, the target format compared with the format of
\* the input
RecordedFormat == IF info.format_changed THEN tfmt ELSE oin.fmt

\* C22: for a PNG target the bytes returned are JPEG exactly when no PNG
\* strategy met the budget; the JPEG search then started at the top of the
\* ladder; and what the result records about the format agrees with the
\* format of the bytes returned.
C22_PngFallsBackToJpeg ==
    PngTargetDone =>
        /\ (oout.fmt = "JPEG") <=> NoPngStrategyFit
        /\ oout.fmt = "JPEG" =>
              /\ Len(JpegTries) >= 1 \/ Len(JpegFinals) = 0
              /\ Len(JpegTries) >= 1 => JpegTries[1].q = quality_levels[1]
        /\ RecordedFormat = oout.fmt

-----------------------------------------------------------------------------
(* Properties of the embedded picture frame (SpecPipeline)                 *)

\* the MIME type of an encoding
MimeOf(fmt) ==
    IF fmt = "JPEG" THEN "image/jpeg"
    ELSE IF fmt = "PNG" THEN "image/png"
    ELSE "None"

\* C23: after process_mp3_file embedded artwork, the picture frame that
\* carries these bytes has the MIME type of their encoding: image/jpeg for
\* JPEG bytes and image/png for PNG bytes.
C23_MimeMatchesEncoding ==
    (ppc = "done" /\ cres.embedded) =>
        \A i \in 1..Len(Pictures(fs[cres.out])) :
            LET p == Pictures(fs[cres.out])[i]
            IN  p.data = cres.art => p.mime = MimeOf(p.data.fmt)

-----------------------------------------------------------------------------
(* Termination of the quality searches (SpecLadderFair)                    *)

\* the number of encodings made so far stays within the bound of the search
AttemptsBounded ==
    /\ tfmt = "JPEG" => Len(Attempts) <= Len(quality_levels) + 1
    /\ tfmt = "PNG" => Len(Attempts) <= Len(strategies) + Len(quality_levels) + 1
    /\ io.initial_quality >= min_quality =>
          Len(io.saves) <= (io.initial_quality - min_quality) \div 5 + 1
    /\ io.initial_quality < min_quality => Len(io.saves) = 0

\* C24: every run of resize_and_optimize returns, after at most the ladder
\* length plus one encodings for a JPEG target and at most the number of
\* PNG strategies plus that bound for a PNG target, whatever sizes the
\* encoder returns; the search of ImageOptimizer returns after at most one
\* encoding per step of five from its initial quality down to min_quality.
C24_BoundedTermination ==
    /\ []AttemptsBounded
    /\ (opc = "idle") ~> (opc = "done")
    /\ (io.pc = "loop") ~> (io.pc = "done")

\* a run for a PNG target that made every encoding the bound allows
C24_Witness ==
    /\ opc = "done"
    /\ tfmt = "PNG"
    /\ info.error = "None"
    /\ Len(Attempts) = Len(strategies) + Len(quality_levels) + 1

-----------------------------------------------------------------------------
(* Properties of generate_unique_filename (SpecUnique)                     *)

\* the name 'stem (k).ext' for "test.mp3"
NumberedName(k) == "test (" \o Decimal(k) \o ").mp3"

\* C25: the name returned for "test.mp3" is "test.mp3" when output_dir has
\* no file of this name; otherwise it is a name that output_dir does not
\* hold, of the form 'test (k).mp3' with k the smallest integer from 1 on
\* for which output_dir holds no such file.
C25_UniqueNameNumbered ==
    ures # "None" =>
        IF "test.mp3" \notin udir THEN ures = "test.mp3"
        ELSE /\ ures \notin udir
             /\ \E k \in 1..(Cardinality(udir) + 1) :
                   /\ ures = NumberedName(k)
                   /\ \A j \in 1..(k - 1) : NumberedName(j) \in udir

-----------------------------------------------------------------------------
(* Properties of TaskManager (SpecTasks)                                   *)

\* the changes of status of a created task
TaskTransitions ==
    { <<"PENDING", "RUNNING">>, <<"RUNNING", "COMPLETED">>, <<"RUNNING", "FAILED">>,
      <<"PENDING", "CANCELLED">> }

RunningCount == Cardinality({t \in Tasks : tstatus[t] = "RUNNING"})

-----------------------------------------------------------------------------
(* Properties of ProcessingJob.update_step (SpecJob)                       *)

\* C27: after any sequence of update_step calls, completed_at is set
\* whenever current_step is COMPLETED or FAILED (so a call with an error
\* message leaves FAILED with the message recorded and completed_at set),
\* and progress_percent is 100 only when current_step is COMPLETED.
C27_CompletedAtSet ==
    /\ job.current_step \in {"COMPLETED", "FAILED"} => job.completed_at
    /\ job.progress_percent = 100 => job.current_step = "COMPLETED"

\* C30: a result of optimize_image with success = true implies that at least
\* one encoding was written to output_path and that the reported quality is
\* the quality parameter of the last encoding written there
C30_ReportedQualityIsLastWritten ==
    oi.success =>
        /\ io.saves # <<>>
        /\ oi.quality = io.saves[Len(io.saves)].q

\* the bytes in the picture frames an embedder of FileOperations wrote
EmbedderPayloads(f) ==
    { Pictures(f)[i].data : i \in { j \in 1..Len(Pictures(f)) : Pictures(f)[j].desc = "Cover" } }

\* C29: whenever process_artwork reports is_compliant, processed_data is
\* present and passes validate_artwork; process_mp3_file and
\* process_mp3_file_with_choice hand bytes to the embedder only when they are
\* the processed_data of such a result, so that no picture frame written by
\* the embedder holds bytes that fail validation.
C29_OnlyValidatedBytesEmbedded ==
    /\ ares.is_compliant =>
          /\ ares.processed_data # NoBytes
          /\ validate_artwork(ares.processed_data).ok
    /\ padata # NoBytes => ares.is_compliant /\ padata = ares.processed_data
    /\ (cop \in {"copy_mp3_with_artwork", "embed_artwork_in_mp3"} /\ artwork_given(cres.art)) =>
          /\ ares.is_compliant
          /\ cres.art = ares.processed_data
          /\ validate_artwork(cres.art).ok
    /\ \A p \in {"out", "out_001"} : \A d \in EmbedderPayloads(fs[p]) :
          validate_artwork(d).ok
    /\ (opc = "done" /\ info.error # "None" /\ ares.optimized) => ~ares.is_compliant

\* the bytes the user selected were not valid, were optimized, passed the
\* second validation and were embedded in the output
C29_Witness ==
    /\ ppc = "done"
    /\ cop = "embed_artwork_in_mp3"
    /\ cres.embedded
    /\ ares.optimized
    /\ ~validate_artwork(ponline).ok
    /\ cres.art = oout
    /\ HoldsPicture(fs[cres.out], oout)

====
